---------------------------- MODULE Spec2Model ----------------------------
(***************************************************************************)
(* A model of the oxa interpreter pipeline: scanner -> parser ->           *)
(* interpreter -> environment, and of the driver that stitches them.       *)
(*                                                                         *)
(* Source text is a sequence of one-character strings.  Every character of *)
(* the model is ASCII, so the byte offsets the scanner keeps (start,       *)
(* current, source.len()) and the character offsets it reads through       *)
(* chars().nth() coincide.  Offsets are 0-based as in the code; sequence   *)
(* positions are offset + 1.                                               *)
(*                                                                         *)
(* Values (token::Literal and object::Object) are records of one shape,    *)
(* [kind, n, s, b]: n carries a Number (i32) or a Float in tenths, s a     *)
(* String as a character sequence, b a Bool.                               *)
(***************************************************************************)
EXTENDS Integers, Sequences, FiniteSets, TLC

VARIABLES
    phase,      \* which part of the pipeline owns the control
    source,     \* Scanner.source
    start,      \* Scanner.start
    current,    \* Scanner.current
    line,       \* Scanner.line
    tokens,     \* Scanner.tokens
    scanDiags,  \* number of Reporter::line_error calls made by the scanner
    scanPc,     \* position inside scan_tokens: "loop", "comment", "done", "err"
    ptokens,    \* Parser.tokens
    pcurrent,   \* Parser.current
    statements, \* the statement list Parser::parse builds
    pdiags,     \* parser diagnostics (Reporter::token_error), in order
    parsePc,    \* position inside Parser::parse: "loop", "done", "panic"
    syncLog,    \* one record per Parser::synchronize call
    program,    \* the statement list handed to Interpreter::interpret
    ip,         \* index of the next statement interpret executes (0-based)
    env,        \* Environment.values, a function from names to values
    result,     \* the vector interpret collects
    output,     \* the lines written by print statements
    rtErrors,   \* number of Reporter::runtime_error calls
    interpPc,   \* position inside interpret: "idle", "loop", "done", "panic"
    last,       \* what the last executed statement did (observation only)
    exitCode,   \* the code the driver's result maps to, -1 before it returns
    calls,      \* number of run() calls made on the Oxa so far
    values,     \* Environment.values as cells: a function from names to cell ids
    cells,      \* the RefCell<Object> allocated so far, by cell id
    handles     \* the Rc cells callers got from define, assign and get

vars == <<phase, source, start, current, line, tokens, scanDiags, scanPc,
          ptokens, pcurrent, statements, pdiags, parsePc, syncLog,
          program, ip, env, result, output, rtErrors, interpPc, last, exitCode,
          calls, values, cells, handles>>

scanVars == <<source, start, current, line, tokens, scanDiags, scanPc>>
parseVars == <<ptokens, pcurrent, statements, pdiags, parsePc, syncLog>>
interpVars == <<program, ip, env, result, output, rtErrors, interpPc, last>>
cellVars == <<values, cells, handles>>

(***************************************************************************)
(* Bounds of the model.                                                    *)
(***************************************************************************)
MaxSrcLen == 4
MaxTokens == 4
MaxStmts == 2
MaxBind == 3
MaxCalls == 3
MaxCells == 3

(***************************************************************************)
(* Characters.                                                             *)
(***************************************************************************)
Letters == {"a", "b", "c", "d", "e", "f", "g", "h", "i", "j", "k", "l", "m",
            "n", "o", "p", "q", "r", "s", "t", "u", "v", "w", "x", "y", "z"}

Digits == {"0", "1", "2", "3", "4", "5", "6", "7", "8", "9"}

is_alphabetic(c) == c \in Letters

is_numeric(c) == c \in Digits

is_alphanumeric(c) == is_alphabetic(c) \/ is_numeric(c)

DigitVal(c) ==
    CASE c = "0" -> 0 [] c = "1" -> 1 [] c = "2" -> 2 [] c = "3" -> 3
      [] c = "4" -> 4 [] c = "5" -> 5 [] c = "6" -> 6 [] c = "7" -> 7
      [] c = "8" -> 8 [] c = "9" -> 9

DigitChar(d) ==
    CASE d = 0 -> "0" [] d = 1 -> "1" [] d = 2 -> "2" [] d = 3 -> "3"
      [] d = 4 -> "4" [] d = 5 -> "5" [] d = 6 -> "6" [] d = 7 -> "7"
      [] d = 8 -> "8" [] d = 9 -> "9"

\* The character peek() returns past the end of the source ('\0').
NulChar == "NUL"

I32Max == 2147483647

\* Floats are kept in tenths: Float(1.5) is n = 15.
FloatScale == 10

(***************************************************************************)
(* Values: token::Literal and object::Object.                              *)
(***************************************************************************)
NumberVal(i) == [kind |-> "Number", n |-> i, s |-> <<>>, b |-> FALSE]

FloatVal(t) == [kind |-> "Float", n |-> t, s |-> <<>>, b |-> FALSE]

StringVal(str) == [kind |-> "String", n |-> 0, s |-> str, b |-> FALSE]

BoolVal(bv) == [kind |-> "Bool", n |-> 0, s |-> <<>>, b |-> bv]

NilVal == [kind |-> "Nil", n |-> 0, s |-> <<>>, b |-> FALSE]

\* Option<Literal>::None on a token.
NoLiteral == [kind |-> "None", n |-> 0, s |-> <<>>, b |-> FALSE]

Token(kind, lexeme, literal, ln) ==
    [kind |-> kind, lexeme |-> lexeme, literal |-> literal, line |-> ln]

\* The keyword table.  The table of the oxa crate maps "let" and "const"
\* (the parser matches TokenKind::Let and TokenKind::Const).
KEYWORDS ==
    [w \in { <<"a","n","d">>, <<"c","l","a","s","s">>, <<"e","l","s","e">>,
             <<"f","a","l","s","e">>, <<"f","o","r">>, <<"f","u","n">>,
             <<"i","f">>, <<"n","i","l">>, <<"o","r">>,
             <<"p","r","i","n","t">>, <<"r","e","t","u","r","n">>,
             <<"s","u","p","e","r">>, <<"t","h","i","s">>,
             <<"t","r","u","e">>, <<"l","e","t">>, <<"c","o","n","s","t">>,
             <<"w","h","i","l","e">> } |->
        CASE w = <<"a","n","d">> -> "And"
          [] w = <<"c","l","a","s","s">> -> "Class"
          [] w = <<"e","l","s","e">> -> "Else"
          [] w = <<"f","a","l","s","e">> -> "False"
          [] w = <<"f","o","r">> -> "For"
          [] w = <<"f","u","n">> -> "Fun"
          [] w = <<"i","f">> -> "If"
          [] w = <<"n","i","l">> -> "Nil"
          [] w = <<"o","r">> -> "Or"
          [] w = <<"p","r","i","n","t">> -> "Print"
          [] w = <<"r","e","t","u","r","n">> -> "Return"
          [] w = <<"s","u","p","e","r">> -> "Super"
          [] w = <<"t","h","i","s">> -> "This"
          [] w = <<"t","r","u","e">> -> "True"
          [] w = <<"l","e","t">> -> "Let"
          [] w = <<"c","o","n","s","t">> -> "Const"
          [] w = <<"w","h","i","l","e">> -> "While"]

IsKeyword(w) == w \in DOMAIN KEYWORDS


(***************************************************************************)
(* Scanner.  A scanner state is the record                                 *)
(*   [start, current, line, tokens, diags];                                *)
(* the operators below take one and return the one the code leaves.  A     *)
(* process_* operator returns [ok, s]: the bool the method returns and the *)
(* state it leaves, which a false return does not restore.                 *)
(***************************************************************************)
ScanState == [start |-> start, current |-> current, line |-> line,
              tokens |-> tokens, diags |-> scanDiags]

is_at_end(s) == s.current >= Len(source)

\* chars().nth(i)
CharAt(i) == IF i < Len(source) THEN source[i + 1] ELSE "NONE"

peek(s, to) ==
    IF is_at_end(s) \/ s.current + to >= Len(source)
    THEN NulChar
    ELSE CharAt(s.current + to)

increment_current(s) == [s EXCEPT !.current = @ + 1]

\* advance() leaves the state increment_current gives and returns AdvanceChar.
AdvanceChar(s) == CharAt(s.current)

get_string(s) == SubSeq(source, s.start + 1, s.current)

add_token(s, kind, literal) ==
    [s EXCEPT !.tokens = Append(@, Token(kind, get_string(s), literal, s.line))]

next_match_char(s, expected) ==
    IF is_at_end(s) THEN [ok |-> FALSE, s |-> s]
    ELSE IF CharAt(s.current) # expected THEN [ok |-> FALSE, s |-> s]
    ELSE [ok |-> TRUE, s |-> increment_current(s)]

process_comparator_char_token(s, c) ==
    LET m == next_match_char(s, "=")
    IN  CASE c = "!" ->
               [ok |-> TRUE,
                s |-> add_token(m.s, IF m.ok THEN "BangEqual" ELSE "Bang", NoLiteral)]
          [] c = "=" ->
               [ok |-> TRUE,
                s |-> add_token(m.s, IF m.ok THEN "EqualEqual" ELSE "Equal", NoLiteral)]
          [] c = "<" ->
               [ok |-> TRUE,
                s |-> add_token(m.s, IF m.ok THEN "LessEqual" ELSE "Less", NoLiteral)]
          [] c = ">" ->
               [ok |-> TRUE,
                s |-> add_token(m.s, IF m.ok THEN "GreaterEqual" ELSE "Greater", NoLiteral)]
          [] OTHER -> [ok |-> FALSE, s |-> m.s]

\* process_comment_char_token up to the entry of its while loop; the loop
\* itself is the action CommentLoop.  loop tells whether the loop is entered.
process_comment_char_token(s, c) ==
    IF c # "/" THEN [ok |-> FALSE, s |-> s, loop |-> FALSE]
    ELSE LET m == next_match_char(s, "/")
         IN  IF m.ok THEN [ok |-> TRUE, s |-> m.s, loop |-> TRUE]
             ELSE [ok |-> FALSE, s |-> m.s, loop |-> FALSE]

\* The while loop of process_string_token for the quote q.
RECURSIVE StringLoop(_, _)
\* A string loop that stops at a quote of either form.
RECURSIVE StringLoop_any_quote(_, _)
StringLoop_any_quote(s, q) ==
    IF is_at_end(s) THEN s
    ELSE LET p == peek(s, 0)
         IN  IF p \in {"\"", "'"} THEN s
             ELSE StringLoop_any_quote(
                      [s EXCEPT !.line = IF p = "\n" THEN @ + 1 ELSE @,
                                !.current = @ + 1], q)

StringLoop(s, q) ==
    IF is_at_end(s) THEN s
    ELSE LET p == peek(s, 0)
         IN  IF p = q THEN s
             ELSE StringLoop([s EXCEPT !.line = IF p = "\n" THEN @ + 1 ELSE @,
                                       !.current = @ + 1], q)

process_string_token(s, c) ==
    IF c \notin {"\"", "'"} THEN [ok |-> FALSE, s |-> s]
    ELSE LET s1 == StringLoop(s, c)
         IN  IF is_at_end(s1)
             THEN [ok |-> FALSE, s |-> [s1 EXCEPT !.diags = @ + 1]]
             ELSE LET s2 == increment_current(s1)
                      str == SubSeq(source, s2.start + 2, s2.current - 1)
                  IN  [ok |-> TRUE, s |-> add_token(s2, "String", StringVal(str))]

\* The loops of process_numeric_token / process_identifier_token /
\* process_keyword_token: advance while the next character is in class.
RECURSIVE ConsumeWhile(_, _)
ConsumeWhile(s, class) ==
    IF peek(s, 0) \in class THEN ConsumeWhile(increment_current(s), class) ELSE s

RECURSIVE DigitsValue(_)
DigitsValue(ds) ==
    IF ds = <<>> THEN 0
    ELSE DigitsValue(SubSeq(ds, 1, Len(ds) - 1)) * 10 + DigitVal(ds[Len(ds)])

AllDigits(str) == \A i \in 1..Len(str) : str[i] \in Digits

\* str::parse::<i32>: fails on a character that is no digit and on overflow.
ParseI32(str) ==
    IF str # <<>> /\ AllDigits(str) /\ DigitsValue(str) <= I32Max
    THEN [ok |-> TRUE, v |-> DigitsValue(str)]
    ELSE [ok |-> FALSE, v |-> 0]

DotIndex(str) == CHOOSE i \in 1..Len(str) : str[i] = "."

\* str::parse::<f32> of "digits.digits", kept in tenths (further fractional
\* digits are dropped by the representation); fails on any other character.
ParseF32(str) ==
    LET d == DotIndex(str)
        whole == SubSeq(str, 1, d - 1)
        frac == SubSeq(str, d + 1, Len(str))
    IN  IF AllDigits(whole) /\ AllDigits(frac) /\ frac # <<>>
        THEN [ok |-> TRUE, v |-> DigitsValue(whole) * FloatScale + DigitVal(frac[1])]
        ELSE [ok |-> FALSE, v |-> 0]

process_numeric_token(s, c) ==
    IF ~ is_numeric(c) THEN [ok |-> FALSE, s |-> s]
    ELSE LET s1 == ConsumeWhile(s, Digits)
             s2 == IF peek(s1, 0) = "." /\ is_numeric(peek(s1, 1))
                   THEN ConsumeWhile(increment_current(s1), Digits)
                   ELSE s1
             str == get_string(s2)
         IN  IF \E i \in 1..Len(str) : str[i] = "."
             THEN LET f == ParseF32(str)
                  IN  IF f.ok
                      THEN [ok |-> TRUE, s |-> add_token(s2, "Number", FloatVal(f.v))]
                      ELSE [ok |-> FALSE, s |-> s2]
             ELSE LET p == ParseI32(str)
                  IN  IF p.ok
                      THEN [ok |-> TRUE, s |-> add_token(s2, "Number", NumberVal(p.v))]
                      ELSE [ok |-> FALSE, s |-> s2]

process_identifier_token(s, c) ==
    IF ~ is_alphabetic(c) THEN [ok |-> FALSE, s |-> s]
    ELSE LET s1 == ConsumeWhile(s, Letters \cup Digits)
         IN  IF IsKeyword(get_string(s1)) THEN [ok |-> FALSE, s |-> s1]
             ELSE [ok |-> TRUE, s |-> add_token(s1, "Identifier", NoLiteral)]

SingleCharKind(c) ==
    CASE c = "(" -> "LeftParen" [] c = ")" -> "RightParen"
      [] c = "{" -> "LeftBrace" [] c = "}" -> "RightBrace"
      [] c = "," -> "Comma" [] c = "." -> "Dot" [] c = "-" -> "Minus"
      [] c = "+" -> "Plus" [] c = "/" -> "Slash" [] c = "*" -> "Star"
      [] c = ";" -> "SemiColon"

process_single_char_token(s, c) ==
    IF c \in {"(", ")", "{", "}", ",", ".", "-", "+", "/", "*", ";"}
    THEN [ok |-> TRUE, s |-> add_token(s, SingleCharKind(c), NoLiteral)]
    ELSE [ok |-> FALSE, s |-> s]

process_keyword_token(s, c) ==
    IF ~ is_alphanumeric(c) THEN [ok |-> FALSE, s |-> s]
    ELSE LET s1 == ConsumeWhile(s, Letters)
             str == get_string(s1)
         IN  IF IsKeyword(str)
             THEN [ok |-> TRUE, s |-> add_token(s1, KEYWORDS[str], NoLiteral)]
             ELSE [ok |-> FALSE, s |-> s1]

\* process_ignored_char with a newline that lowers the line counter.
process_ignored_char_line_down(s, c) ==
    CASE c \in {" ", "\r", "\t"} -> [ok |-> TRUE, s |-> s]
      [] c = "\n" -> [ok |-> TRUE, s |-> [s EXCEPT !.line = @ - 1]]
      [] OTHER -> [ok |-> FALSE, s |-> s]

process_ignored_char(s, c) ==
    CASE c \in {" ", "\r", "\t"} -> [ok |-> TRUE, s |-> s]
      [] c = "\n" -> [ok |-> TRUE, s |-> [s EXCEPT !.line = @ + 1]]
      [] OTHER -> [ok |-> FALSE, s |-> s]

\* Let1(v, F) is F(v) with v evaluated once, before F is applied.
Let1(v, F(_)) == CHOOSE y \in {F(x) : x \in {v}} : TRUE

\* process_next_token after advance() returned Some(c): the || chain, each
\* method run on the state the previous one left.  The result says whether
\* the comment loop has been entered.
ProcessChain(s, c) ==
    Let1(process_comparator_char_token(s, c), LAMBDA r1 :
    IF r1.ok THEN [s |-> r1.s, loop |-> FALSE] ELSE
    Let1(process_comment_char_token(r1.s, c), LAMBDA r2 :
    IF r2.ok THEN [s |-> r2.s, loop |-> r2.loop] ELSE
    Let1(process_identifier_token(r2.s, c), LAMBDA r3 :
    IF r3.ok THEN [s |-> r3.s, loop |-> FALSE] ELSE
    Let1(process_numeric_token(r3.s, c), LAMBDA r4 :
    IF r4.ok THEN [s |-> r4.s, loop |-> FALSE] ELSE
    Let1(process_string_token(r4.s, c), LAMBDA r5 :
    IF r5.ok THEN [s |-> r5.s, loop |-> FALSE] ELSE
    Let1(process_single_char_token(r5.s, c), LAMBDA r6 :
    IF r6.ok THEN [s |-> r6.s, loop |-> FALSE] ELSE
    Let1(process_keyword_token(r6.s, c), LAMBDA r7 :
    IF r7.ok THEN [s |-> r7.s, loop |-> FALSE] ELSE
    [s |-> process_ignored_char(r7.s, c).s, loop |-> FALSE])))))))

SetScanState(s) ==
    /\ start' = s.start
    /\ current' = s.current
    /\ line' = s.line
    /\ tokens' = s.tokens
    /\ scanDiags' = s.diags

\* One iteration of the while loop of scan_tokens: start = current, then
\* process_next_token up to its return or to the entry of the comment loop.
ScanNextToken ==
    /\ phase = "scan"
    /\ scanPc = "loop"
    /\ ~ is_at_end(ScanState)
    /\ LET s0 == [ScanState EXCEPT !.start = current]
           c == AdvanceChar(s0)
           s1 == increment_current(s0)
       IN  IF c = "NONE"
           THEN /\ SetScanState(s1)
                /\ scanPc' = "err"
           ELSE \E r \in {ProcessChain(s1, c)} :
                    /\ SetScanState(r.s)
                    /\ scanPc' = IF r.loop THEN "comment" ELSE "loop"
    /\ UNCHANGED <<phase, source, parseVars, interpVars, exitCode>>
    /\ UNCHANGED <<calls, cellVars>>

\* One evaluation of the loop of process_comment_char_token: its condition
\* and, when that holds, its body.  peek(0) is always Some.
CommentLoop ==
    /\ phase = "scan"
    /\ scanPc = "comment"
    /\ IF ~ is_at_end(ScanState)
       THEN /\ current' = IF peek(ScanState, 0) # "\n" THEN current + 1 ELSE current
            /\ scanPc' = "comment"
       ELSE /\ current' = current
            /\ scanPc' = "loop"
    /\ UNCHANGED <<phase, source, start, line, tokens, scanDiags,
                   parseVars, interpVars, exitCode>>
    /\ UNCHANGED <<calls, cellVars>>

\* The end of scan_tokens: the Eof token and Ok(tokens).
ScanEof ==
    /\ phase = "scan"
    /\ scanPc = "loop"
    /\ is_at_end(ScanState)
    /\ tokens' = Append(tokens, Token("Eof", <<>>, NoLiteral, line))
    /\ scanPc' = "done"
    /\ UNCHANGED <<phase, source, start, current, line, scanDiags,
                   parseVars, interpVars, exitCode>>
    /\ UNCHANGED <<calls, cellVars>>

(***************************************************************************)
(* Values of the parts of the pipeline that have not started.              *)
(***************************************************************************)
NoStmt == [type |-> "None"]

\* last before any statement was executed.
NoLast == [stmt |-> NoStmt, before |-> <<>>, st |-> "none", val |-> NilVal,
           err |-> "", log |-> <<>>]

ScanIdle ==
    /\ source = <<>>
    /\ start = 0
    /\ current = 0
    /\ line = 0
    /\ tokens = <<>>
    /\ scanDiags = 0
    /\ scanPc = "idle"

ParseIdle ==
    /\ ptokens = <<>>
    /\ pcurrent = 0
    /\ statements = <<>>
    /\ pdiags = <<>>
    /\ parsePc = "idle"
    /\ syncLog = <<>>

InterpIdle ==
    /\ program = <<>>
    /\ ip = 0
    /\ env = <<>>
    /\ result = <<>>
    /\ output = <<>>
    /\ rtErrors = 0
    /\ interpPc = "idle"
    /\ last = NoLast

\* Environment::default() and no cell handed out.
CellsIdle ==
    /\ values = <<>>
    /\ cells = <<>>
    /\ handles = {}

\* ScannerBuilder::default().source(s).build(): start, current and line are
\* the usize defaults.
ScannerBuilt(src) ==
    /\ source = src
    /\ start = 0
    /\ current = 0
    /\ line = 0
    /\ tokens = <<>>
    /\ scanDiags = 0
    /\ scanPc = "loop"

(***************************************************************************)
(* SpecScan: scan_tokens on every source over ScanAlphabet of at most      *)
(* MaxSrcLen characters.                                                   *)
(***************************************************************************)
ScanAlphabet == {"a", "1", "=", "!", "/", "\n", " ", ")", "\"", "'", "@"}

ScanSources == UNION {[1..n -> ScanAlphabet] : n \in 0..MaxSrcLen}

InitScan ==
    /\ phase = "scan"
    /\ \E src \in ScanSources : ScannerBuilt(src)
    /\ ParseIdle
    /\ InterpIdle
    /\ exitCode = -1
    /\ calls = 0
    /\ CellsIdle

NextScan == ScanNextToken \/ CommentLoop \/ ScanEof

SpecScan == InitScan /\ [][NextScan]_vars

\* scan_tokens runs on the calling thread with nothing to wait for: a step
\* that can be taken is taken.
FairSpecScan == SpecScan /\ WF_vars(NextScan)

(***************************************************************************)
(* Scanner claims.                                                         *)
(***************************************************************************)
SingleCharKinds == {"LeftParen", "RightParen", "LeftBrace", "RightBrace",
                    "Comma", "Dot", "Minus", "Plus", "Slash", "Star",
                    "SemiColon"}

\* C1: for every source, scan_tokens terminates and returns a token list
\* that ends with Eof, a `//` comment followed by a newline included.
C1_ScanTerminatesWithEof ==
    <>(scanPc = "done" /\ tokens # <<>> /\ tokens[Len(tokens)].kind = "Eof")

\* C3: the `=` after the current character is consumed with it only when
\* that character is one of ! = < > (a string or a comment aside, whose
\* slices may hold any character), and every single-character punctuation
\* token has a one-character lexeme.
C3_EqualJoinsOnlyComparators ==
    /\ ( /\ scanPc \in {"loop", "comment", "done"}
         /\ current - start >= 2
         /\ source[start + 1] \notin {"!", "=", "<", ">", "\"", "'"} )
       => source[start + 2] # "="
    /\ \A i \in 1..Len(tokens) :
          tokens[i].kind \in SingleCharKinds => Len(tokens[i].lexeme) = 1

(***************************************************************************)
(* AST nodes (ast/expr.rs, ast/stmt.rs).                                   *)
(***************************************************************************)
Assign(name, value) == [type |-> "Assign", name |-> name, value |-> value]

Binary(left, operator, right) ==
    [type |-> "Binary", left |-> left, operator |-> operator, right |-> right]

Grouping(expression) == [type |-> "Grouping", expression |-> expression]

Literal(value) == [type |-> "Literal", value |-> value]

Unary(operator, right) == [type |-> "Unary", operator |-> operator, right |-> right]

Variable(name) == [type |-> "Variable", name |-> name]

ExpressionStmt(expression) == [type |-> "Expression", expression |-> expression]

PrintStmt(expression) == [type |-> "Print", expression |-> expression]

LetStmt(name, initializer) ==
    [type |-> "Let", name |-> name, initializer |-> initializer]

ConstStmt(name, initializer) ==
    [type |-> "Const", name |-> name, initializer |-> initializer]

NoNode == [type |-> "None"]

(***************************************************************************)
(* Parser.  A parser state is the record [cur, diags]: Parser.current and  *)
(* the diagnostics reported so far; Parser.tokens is ptokens.  A parsing   *)
(* method returns [st, node, p]: st is "some" or "none" for the Option it  *)
(* returns and "panic" when it unwinds; p is the parser state it leaves.   *)
(***************************************************************************)
ParserState == [cur |-> pcurrent, diags |-> pdiags]

\* Option<Token>::None
NoToken == Token("None", <<>>, NoLiteral, 0)

SomeR(node, p) == [st |-> "some", node |-> node, p |-> p]

NoneR(p) == [st |-> "none", node |-> NoNode, p |-> p]

PanicR(p) == [st |-> "panic", node |-> NoNode, p |-> p]

peek_index(i) == IF i >= 0 /\ i < Len(ptokens) THEN ptokens[i + 1] ELSE NoToken

p_peek(p) == peek_index(p.cur)

previous(p) == peek_index(p.cur - 1)

p_is_at_end(p) == p_peek(p).kind \in {"None", "Eof"}

check_token(p, kind) == (~ p_is_at_end(p)) /\ p_peek(p).kind = kind

p_advance(p) == IF ~ p_is_at_end(p) THEN [p EXCEPT !.cur = @ + 1] ELSE p

match_token(p, kinds) ==
    IF \E k \in kinds : check_token(p, k)
    THEN [ok |-> TRUE, p |-> p_advance(p)]
    ELSE [ok |-> FALSE, p |-> p]

consume(p, kind) ==
    IF check_token(p, kind)
    THEN [ok |-> TRUE, tok |-> previous(p_advance(p)), p |-> p_advance(p)]
    ELSE [ok |-> FALSE, tok |-> NoToken, p |-> p]

\* One reported diagnostic: Reporter::token_error(token, message) or
\* Reporter::line_error(ln, message), the latter with no token.
Diag(message, token, ln) == [message |-> message, token |-> token, line |-> ln]

error(p, token, message) ==
    [p EXCEPT !.diags = Append(@, Diag(message, token, token.line))]

\* if let Some(token) = self.peek() { self.error(&token, message) }
ErrorAtPeek(p, message) ==
    IF p_peek(p).kind # "None" THEN error(p, p_peek(p), message) ELSE p

\* check_stmt_terminal that lets a missing `;` pass without a report.
check_stmt_terminal_silent(p) ==
    IF consume(p, "SemiColon").ok
    THEN consume(p, "SemiColon").p
    ELSE p

check_stmt_terminal(p) ==
    IF consume(p, "SemiColon").ok
    THEN consume(p, "SemiColon").p
    ELSE ErrorAtPeek(p, "Expect ';' after expression.")

RECURSIVE expression(_), assignment(_), equality(_), EqualityLoop(_, _),
          comparison(_), ComparisonLoop(_, _), term(_), TermLoop(_, _),
          factor(_), unary(_), primary(_)

primary(p) ==
    IF match_token(p, {"Identifier"}).ok
    THEN Let1(p_advance(p), LAMBDA q : SomeR(Variable(previous(q)), q))
    ELSE IF match_token(p, {"Number", "String"}).ok
    THEN Let1(p_advance(p), LAMBDA q :
             IF previous(q).literal.kind # "None"
             THEN SomeR(Literal(previous(q).literal), q)
             ELSE NoneR(q))
    ELSE IF match_token(p, {"LeftParen"}).ok
    THEN Let1(expression(p_advance(p)), LAMBDA inner :
             IF inner.st # "some" THEN inner
             ELSE SomeR(Grouping(inner.node),
                        IF consume(inner.p, "RightParen").ok
                        THEN consume(inner.p, "RightParen").p
                        ELSE ErrorAtPeek(inner.p, "Expect ')' after expression.")))
    ELSE IF match_token(p, {"False"}).ok
    THEN SomeR(Literal(BoolVal(FALSE)), p_advance(p))
    ELSE IF match_token(p, {"True"}).ok
    THEN SomeR(Literal(BoolVal(TRUE)), p_advance(p))
    ELSE IF match_token(p, {"Nil"}).ok
    THEN SomeR(Literal(NilVal), p_advance(p))
    ELSE NoneR(ErrorAtPeek(p, "Expect expression."))

unary(p) ==
    IF match_token(p, {"Bang", "Minus"}).ok
    THEN Let1(p_advance(p), LAMBDA q :
         Let1(unary(q), LAMBDA right :
             IF right.st # "some" THEN right
             ELSE SomeR(Unary(previous(q), right.node), right.p)))
    ELSE primary(p)

\* One optional operator: the match is not a loop.
factor(p) ==
    Let1(unary(p), LAMBDA expr :
        IF expr.st # "some" THEN expr
        ELSE IF match_token(expr.p, {"Slash", "Star"}).ok
        THEN Let1(p_advance(expr.p), LAMBDA q :
             Let1(unary(q), LAMBDA right :
                 IF right.st # "some" THEN right
                 ELSE SomeR(Binary(expr.node, previous(q), right.node), right.p)))
        ELSE expr)

TermLoop(expr, p) ==
    IF match_token(p, {"Minus", "Plus"}).ok
    THEN Let1(p_advance(p), LAMBDA q :
         Let1(factor(q), LAMBDA right :
             IF right.st # "some" THEN right
             ELSE TermLoop(Binary(expr, previous(q), right.node), right.p)))
    ELSE SomeR(expr, p)

term(p) ==
    Let1(factor(p), LAMBDA expr :
        IF expr.st # "some" THEN expr ELSE TermLoop(expr.node, expr.p))

ComparisonLoop(expr, p) ==
    IF match_token(p, {"Greater", "GreaterEqual", "Less", "LessEqual"}).ok
    THEN Let1(p_advance(p), LAMBDA q :
         Let1(term(q), LAMBDA right :
             IF right.st # "some" THEN right
             ELSE ComparisonLoop(Binary(expr, previous(q), right.node), right.p)))
    ELSE SomeR(expr, p)

comparison(p) ==
    Let1(term(p), LAMBDA expr :
        IF expr.st # "some" THEN expr ELSE ComparisonLoop(expr.node, expr.p))

\* expr is the Option the loop holds, as a result record; a None is not
\* returned before the loop, and expr.unwrap() panics on it.
EqualityLoop(expr, p) ==
    IF match_token(p, {"EqualEqual", "EqualEqual"}).ok
    THEN Let1(p_advance(p), LAMBDA q :
         Let1(comparison(q), LAMBDA right :
             IF right.st # "some" THEN right
             ELSE IF expr.st # "some" THEN PanicR(right.p)
             ELSE EqualityLoop(
                      SomeR(Binary(expr.node, previous(q), right.node), right.p),
                      right.p)))
    ELSE [expr EXCEPT !.p = p]

equality(p) ==
    Let1(comparison(p), LAMBDA expr :
        IF expr.st = "panic" THEN expr ELSE EqualityLoop(expr, expr.p))

\* assignment that drops the value of an invalid target without a report.
assignment_silent(p) ==
    Let1(equality(p), LAMBDA expr :
        IF expr.st # "some" THEN expr
        ELSE IF match_token(expr.p, {"Equal"}).ok
        THEN Let1(p_advance(expr.p), LAMBDA q :
             Let1(assignment(q), LAMBDA value :
                 IF value.st # "some" THEN value
                 ELSE IF expr.node.type = "Variable"
                 THEN SomeR(Assign(expr.node.name, value.node), value.p)
                 ELSE SomeR(expr.node, value.p)))
        ELSE expr)

assignment(p) ==
    Let1(equality(p), LAMBDA expr :
        IF expr.st # "some" THEN expr
        ELSE IF match_token(expr.p, {"Equal"}).ok
        THEN Let1(p_advance(expr.p), LAMBDA q :
             Let1(assignment(q), LAMBDA value :
                 IF value.st # "some" THEN value
                 ELSE IF expr.node.type = "Variable"
                 THEN SomeR(Assign(expr.node.name, value.node), value.p)
                 ELSE SomeR(expr.node,
                            error(value.p, previous(q), "Invalid assignment target."))))
        ELSE expr)

expression(p) == assignment(p)

print_statement(p) ==
    Let1(expression(p), LAMBDA expr :
        IF expr.st # "some" THEN expr
        ELSE SomeR(PrintStmt(expr.node), check_stmt_terminal(expr.p)))

expression_statement(p) ==
    Let1(expression(p), LAMBDA expr :
        IF expr.st # "some" THEN expr
        ELSE SomeR(ExpressionStmt(expr.node), check_stmt_terminal(expr.p)))

var_declaration(p, is_const) ==
    Let1(consume(p, "Identifier"), LAMBDA name :
        IF ~ name.ok THEN NoneR(name.p)
        ELSE Let1(IF match_token(name.p, {"Equal"}).ok
                  THEN expression(p_advance(name.p))
                  ELSE SomeR(Literal(NilVal), name.p), LAMBDA initializer :
                 IF initializer.st # "some" THEN initializer
                 ELSE SomeR(IF is_const
                            THEN ConstStmt(name.tok, initializer.node)
                            ELSE LetStmt(name.tok, initializer.node),
                            check_stmt_terminal(initializer.p))))

statement(p) ==
    IF match_token(p, {"Print"}).ok
    THEN print_statement(p_advance(p))
    ELSE expression_statement(p)

declaration(p) ==
    IF match_token(p, {"Const"}).ok THEN var_declaration(p_advance(p), TRUE)
    ELSE IF match_token(p, {"Let"}).ok THEN var_declaration(p_advance(p), FALSE)
    ELSE statement(p)

RECURSIVE SynchronizeLoop(_)
SynchronizeLoop(p) ==
    IF p_is_at_end(p) THEN p
    ELSE IF previous(p).kind = "SemiColon" THEN p
    ELSE IF p_peek(p).kind \in {"Class", "Fun", "Let", "Const", "For", "If",
                                "While", "Print", "Return"} THEN p
    ELSE SynchronizeLoop(p_advance(p))

\* A synchronize that stops only behind a `;` and at no keyword.
RECURSIVE SkipToSemiColon(_)
SkipToSemiColon(p) ==
    IF p_is_at_end(p) THEN p
    ELSE IF previous(p).kind = "SemiColon" THEN p
    ELSE SkipToSemiColon(p_advance(p))

synchronize_past_keywords(p) == SkipToSemiColon(p_advance(p))

synchronize(p) == SynchronizeLoop(p_advance(p))

(***************************************************************************)
(* Objects (object.rs).  An Object is the value record of its kind; a      *)
(* Float holds its value in units of 1/FloatScale.                         *)
(***************************************************************************)
\* i32 and f32 arithmetic is the arithmetic of the integers: the operands
\* the specifications draw keep every result inside i32.
Abs(x) == IF x < 0 THEN -x ELSE x

\* l / r on i32, r # 0: the quotient truncated toward zero.
QuotI32(l, r) ==
    IF (l < 0) # (r < 0) THEN -(Abs(l) \div Abs(r)) ELSE Abs(l) \div Abs(r)

\* From<Literal> for Object
ObjectFrom(l) ==
    CASE l.kind = "Number" -> NumberVal(l.n)
      [] l.kind = "Float" -> FloatVal(l.n)
      [] l.kind = "String" -> StringVal(l.s)
      [] l.kind = "Bool" -> BoolVal(l.b)
      [] OTHER -> NilVal

RECURSIVE NatDigits(_)
NatDigits(n) ==
    IF n < 10 THEN <<DigitChar(n)>>
    ELSE Append(NatDigits(n \div 10), DigitChar(n % 10))

\* Display for ObjectValue: the text print writes.
Display(v) ==
    CASE v.kind = "Number" ->
            (IF v.n < 0 THEN <<"-">> ELSE <<>>) \o NatDigits(Abs(v.n))
      [] v.kind = "Float" ->
            (IF v.n < 0 THEN <<"-">> ELSE <<>>)
            \o NatDigits(Abs(v.n) \div FloatScale)
            \o (IF Abs(v.n) % FloatScale = 0 THEN <<>>
                ELSE <<".">> \o NatDigits(Abs(v.n) % FloatScale))
      [] v.kind = "String" -> v.s
      [] v.kind = "Bool" -> IF v.b THEN <<"t", "r", "u", "e">>
                            ELSE <<"f", "a", "l", "s", "e">>
      [] OTHER -> <<"N", "i", "l">>

IsNum(v) == v.kind \in {"Number", "Float"}

\* The operand as f32: `n as f32` for a Number.
F32Of(v) == IF v.kind = "Number" THEN v.n * FloatScale ELSE v.n

\* add that writes the right operand's text first.
add_right_first(l, r) ==
    CASE l.kind = "Number" /\ r.kind = "Number" -> NumberVal(l.n + r.n)
      [] IsNum(l) /\ IsNum(r) -> FloatVal(F32Of(l) + F32Of(r))
      [] l.kind \in {"Number", "Float", "String"} /\ r.kind = "String" ->
            StringVal(r.s \o Display(l))
      [] l.kind = "String" /\ IsNum(r) -> StringVal(Display(r) \o l.s)
      [] OTHER -> NilVal

add(l, r) ==
    CASE l.kind = "Number" /\ r.kind = "Number" -> NumberVal(l.n + r.n)
      [] IsNum(l) /\ IsNum(r) -> FloatVal(F32Of(l) + F32Of(r))
      [] l.kind \in {"Number", "Float", "String"} /\ r.kind = "String" ->
            StringVal(Display(l) \o r.s)
      [] l.kind = "String" /\ IsNum(r) -> StringVal(l.s \o Display(r))
      [] OTHER -> NilVal

sub(l, r) ==
    CASE l.kind = "Number" /\ r.kind = "Number" -> NumberVal(l.n - r.n)
      [] IsNum(l) /\ IsNum(r) -> FloatVal(F32Of(l) - F32Of(r))
      [] OTHER -> NilVal

\* A product of two f32 is kept to the model's 1/FloatScale.
mul(l, r) ==
    CASE l.kind = "Number" /\ r.kind = "Number" -> NumberVal(l.n * r.n)
      [] IsNum(l) /\ IsNum(r) -> FloatVal(QuotI32(F32Of(l) * F32Of(r), FloatScale))
      [] OTHER -> NilVal

\* i32 division panics on a zero divisor and on i32::MIN / -1.
DivPanics(l, r) ==
    /\ l.kind = "Number"
    /\ r.kind = "Number"
    /\ (r.n = 0 \/ (l.n = -I32Max - 1 /\ r.n = -1))

\* Defined where DivPanics is false and an f32 divisor is not zero.
div(l, r) ==
    CASE l.kind = "Number" /\ r.kind = "Number" -> NumberVal(QuotI32(l.n, r.n))
      [] IsNum(l) /\ IsNum(r) -> FloatVal(QuotI32(F32Of(l) * FloatScale, F32Of(r)))
      [] OTHER -> NilVal

\* The other operand as the left one's type: a Float as i32 for a Number.
CmpRight(l, r) ==
    IF l.kind = "Number"
    THEN (IF r.kind = "Float" THEN QuotI32(r.n, FloatScale) ELSE r.n)
    ELSE F32Of(r)

\* lt that also holds for equal operands.
lt_or_equal(l, r) == IsNum(l) /\ IsNum(r) /\ l.n <= CmpRight(l, r)

lt(l, r) == IsNum(l) /\ IsNum(r) /\ l.n < CmpRight(l, r)

le(l, r) == IsNum(l) /\ IsNum(r) /\ l.n <= CmpRight(l, r)

gt(l, r) == IsNum(l) /\ IsNum(r) /\ l.n > CmpRight(l, r)

ge(l, r) == IsNum(l) /\ IsNum(r) /\ l.n >= CmpRight(l, r)

(***************************************************************************)
(* Environment (environment.rs): values is a function from names to the    *)
(* Object each name's cell holds.                                          *)
(***************************************************************************)
\* A define that keeps no other binding.
define_alone(e, name, value) ==
    [n \in {name} |-> value]

define(e, name, value) ==
    [n \in (DOMAIN e) \cup {name} |-> IF n = name THEN value ELSE e[n]]

assign(e, token, value) ==
    IF token.lexeme \in DOMAIN e
    THEN [ok |-> TRUE, env |-> define(e, token.lexeme, value)]
    ELSE [ok |-> FALSE, env |-> e]

get(e, token) ==
    IF token.lexeme \in DOMAIN e
    THEN [ok |-> TRUE, val |-> e[token.lexeme]]
    ELSE [ok |-> FALSE, val |-> NilVal]

(***************************************************************************)
(* Interpreter (interpreter.rs).  A visit returns [st, val, err, env, log]: *)
(* st is "ok" or "err" for the Result and "panic" when the visit unwinds;  *)
(* env is the environment it leaves; log lists, in order, the literals,    *)
(* reads and assignments it performed.  held tells whether the caller      *)
(* holds the RefMut of the environment's RefCell: a borrow_mut() made      *)
(* while it is held panics.                                                *)
(***************************************************************************)
OkR(v, e, lg) == [st |-> "ok", val |-> v, err |-> "", env |-> e, log |-> lg]

ErrR(code, e, lg) == [st |-> "err", val |-> NilVal, err |-> code, env |-> e, log |-> lg]

UnwindR(e, lg) == [st |-> "panic", val |-> NilVal, err |-> "", env |-> e, log |-> lg]

Event(op, name) == [op |-> op, name |-> name]

check_numeric_operand(right) == IsNum(right)

check_numeric_operands(left, right) == IsNum(left) /\ IsNum(right)

\* check_numeric_or_string_operands that looks at the left operand only.
check_numeric_or_string_operands_left_only(left, right) ==
    left.kind \in {"Float", "Number", "String"}

check_numeric_or_string_operands(left, right) ==
    /\ left.kind \in {"Float", "Number", "String"}
    /\ right.kind \in {"Float", "Number", "String"}

\* is_truthy negated: what a logical not would yield.
is_truthy_negated(object) ==
    CASE object.kind = "Nil" -> BoolVal(TRUE)
      [] object.kind = "Bool" -> BoolVal(~ object.b)
      [] OTHER -> BoolVal(FALSE)

is_truthy(object) ==
    CASE object.kind = "Nil" -> BoolVal(FALSE)
      [] object.kind = "Bool" -> object
      [] OTHER -> BoolVal(TRUE)

\* The match of visit_binary_expr on the operator, both operands evaluated.
BinaryMatch(operator, left, right, e, lg) ==
    CASE operator.kind = "Plus" ->
            IF check_numeric_or_string_operands(left, right)
            THEN OkR(add(left, right), e, lg) ELSE ErrR("RuntimeError", e, lg)
      [] operator.kind = "Minus" ->
            IF check_numeric_operands(left, right)
            THEN OkR(sub(left, right), e, lg) ELSE ErrR("RuntimeError", e, lg)
      [] operator.kind = "Slash" ->
            IF ~ check_numeric_operands(left, right) THEN ErrR("RuntimeError", e, lg)
            ELSE IF DivPanics(left, right) THEN UnwindR(e, lg)
            ELSE OkR(div(left, right), e, lg)
      [] operator.kind = "Star" ->
            IF check_numeric_operands(left, right)
            THEN OkR(mul(left, right), e, lg) ELSE ErrR("RuntimeError", e, lg)
      [] operator.kind = "Greater" ->
            IF check_numeric_operands(left, right)
            THEN OkR(BoolVal(gt(left, right)), e, lg) ELSE ErrR("RuntimeError", e, lg)
      [] operator.kind = "GreaterEqual" ->
            IF check_numeric_operands(left, right)
            THEN OkR(BoolVal(ge(left, right)), e, lg) ELSE ErrR("RuntimeError", e, lg)
      [] operator.kind = "Less" ->
            IF check_numeric_operands(left, right)
            THEN OkR(BoolVal(lt(left, right)), e, lg) ELSE ErrR("RuntimeError", e, lg)
      [] operator.kind = "LessEqual" ->
            IF check_numeric_operands(left, right)
            THEN OkR(BoolVal(le(left, right)), e, lg) ELSE ErrR("RuntimeError", e, lg)
      [] operator.kind = "BangEqual" -> OkR(BoolVal(left # right), e, lg)
      [] operator.kind = "EqualEqual" -> OkR(BoolVal(left = right), e, lg)
      [] OTHER -> ErrR("RuntimeError", e, lg)

RECURSIVE evaluate(_, _, _), visit_assign_expr(_, _, _), visit_binary_expr(_, _, _),
          visit_binary_expr_left_first(_, _, _), visit_grouping_expr(_, _, _),
          visit_unary_expr(_, _, _)

\* A visit_assign_expr that binds the name to nil when the value fails.
visit_assign_expr_binds_on_error(expr, e, held) ==
    Let1(evaluate(expr.value, e, held), LAMBDA value :
        IF value.st = "err"
        THEN [value EXCEPT !.env = define(value.env, expr.name.lexeme, NilVal)]
        ELSE IF value.st # "ok" THEN value
        ELSE IF held THEN UnwindR(value.env, value.log)
        ELSE Let1(assign(value.env, expr.name, value.val), LAMBDA a :
                 IF a.ok
                 THEN OkR(value.val, a.env,
                          Append(value.log, Event("assign", expr.name.lexeme)))
                 ELSE ErrR("ProcessError", value.env,
                           Append(value.log, Event("assign", expr.name.lexeme)))))

visit_assign_expr(expr, e, held) ==
    Let1(evaluate(expr.value, e, held), LAMBDA value :
        IF value.st # "ok" THEN value
        ELSE IF held THEN UnwindR(value.env, value.log)
        ELSE Let1(assign(value.env, expr.name, value.val), LAMBDA a :
                 IF a.ok
                 THEN OkR(value.val, a.env,
                          Append(value.log, Event("assign", expr.name.lexeme)))
                 ELSE ErrR("ProcessError", value.env,
                           Append(value.log, Event("assign", expr.name.lexeme)))))

\* A visit_binary_expr that evaluates the left operand first.
visit_binary_expr_left_first(expr, e, held) ==
    Let1(evaluate(expr.left, e, held), LAMBDA left :
        IF left.st # "ok" THEN left
        ELSE Let1(evaluate(expr.right, left.env, held), LAMBDA right :
                 IF right.st # "ok"
                 THEN [right EXCEPT !.log = left.log \o @]
                 ELSE BinaryMatch(expr.operator, left.val, right.val, right.env,
                                  left.log \o right.log)))

visit_binary_expr(expr, e, held) ==
    Let1(evaluate(expr.right, e, held), LAMBDA right :
        IF right.st # "ok" THEN right
        ELSE Let1(evaluate(expr.left, right.env, held), LAMBDA left :
                 IF left.st # "ok"
                 THEN [left EXCEPT !.log = right.log \o @]
                 ELSE BinaryMatch(expr.operator, left.val, right.val, left.env,
                                  right.log \o left.log)))

visit_grouping_expr(expr, e, held) == evaluate(expr.expression, e, held)

visit_literal_expr(expr, e, held) ==
    OkR(ObjectFrom(expr.value), e, <<Event("literal", <<>>)>>)

visit_unary_expr(expr, e, held) ==
    Let1(evaluate(expr.right, e, held), LAMBDA right :
        IF right.st # "ok" THEN right
        ELSE CASE expr.operator.kind = "Minus" ->
                     IF ~ check_numeric_operand(right.val)
                     THEN ErrR("RuntimeError", right.env, right.log)
                     ELSE IF right.val.kind = "Number"
                     THEN OkR(FloatVal((-right.val.n) * FloatScale), right.env, right.log)
                     ELSE OkR(FloatVal(-right.val.n), right.env, right.log)
               [] expr.operator.kind = "Bang" ->
                     OkR(is_truthy(right.val), right.env, right.log)
               [] OTHER -> ErrR("ProcessError", right.env, right.log))

visit_variable_expr(expr, e, held) ==
    IF held THEN UnwindR(e, <<>>)
    ELSE IF get(e, expr.name).ok
    THEN OkR(get(e, expr.name).val, e, <<Event("read", expr.name.lexeme)>>)
    ELSE ErrR("ProcessError", e, <<Event("read", expr.name.lexeme)>>)

evaluate(expr, e, held) ==
    CASE expr.type = "Assign" -> visit_assign_expr(expr, e, held)
      [] expr.type = "Binary" -> visit_binary_expr(expr, e, held)
      [] expr.type = "Grouping" -> visit_grouping_expr(expr, e, held)
      [] expr.type = "Literal" -> visit_literal_expr(expr, e, held)
      [] expr.type = "Unary" -> visit_unary_expr(expr, e, held)
      [] expr.type = "Variable" -> visit_variable_expr(expr, e, held)

\* A statement's result: the visit's record and the lines it printed.
StmtR(r, out) ==
    [st |-> r.st, val |-> r.val, err |-> r.err, env |-> r.env, log |-> r.log,
     out |-> out]

visit_expression_stmt(stmt, e) == StmtR(evaluate(stmt.expression, e, FALSE), <<>>)

visit_print_stmt(stmt, e) ==
    Let1(evaluate(stmt.expression, e, FALSE), LAMBDA value :
        StmtR(value, IF value.st = "ok" THEN <<Display(value.val)>> ELSE <<>>))

\* borrow_mut() is the receiver of define(..) and is taken before the
\* argument, the initializer, is evaluated.
visit_let_stmt(stmt, e) ==
    Let1(evaluate(stmt.initializer, e, TRUE), LAMBDA init :
        IF init.st # "ok" THEN StmtR(init, <<>>)
        ELSE StmtR(OkR(init.val, define(init.env, stmt.name.lexeme, init.val),
                       init.log), <<>>))

\* visit_const_stmt that keeps the binding a name already has.
visit_const_stmt_keeps_bound(stmt, e) ==
    Let1(evaluate(stmt.initializer, e, TRUE), LAMBDA init :
        IF init.st # "ok" THEN StmtR(init, <<>>)
        ELSE StmtR(OkR(init.val,
                       IF stmt.name.lexeme \in DOMAIN init.env THEN init.env
                       ELSE define(init.env, stmt.name.lexeme, init.val),
                       init.log), <<>>))

visit_const_stmt(stmt, e) ==
    Let1(evaluate(stmt.initializer, e, TRUE), LAMBDA init :
        IF init.st # "ok" THEN StmtR(init, <<>>)
        ELSE StmtR(OkR(init.val, define(init.env, stmt.name.lexeme, init.val),
                       init.log), <<>>))

execute(stmt, e) ==
    CASE stmt.type = "Expression" -> visit_expression_stmt(stmt, e)
      [] stmt.type = "Print" -> visit_print_stmt(stmt, e)
      [] stmt.type = "Let" -> visit_let_stmt(stmt, e)
      [] stmt.type = "Const" -> visit_const_stmt(stmt, e)

(***************************************************************************)
(* Parser::parse, one action per iteration of its loop and per outcome of  *)
(* the declaration it parses.                                              *)
(***************************************************************************)
SetParserState(p) ==
    /\ pcurrent' = p.cur
    /\ pdiags' = p.diags

\* Parser::new(tokens)
ParserBuilt(toks) ==
    /\ ptokens = toks
    /\ pcurrent = 0
    /\ statements = <<>>
    /\ pdiags = <<>>
    /\ parsePc = "loop"
    /\ syncLog = <<>>

\* declaration() returned Some(stmt): statements.push(stmt).
ParseDeclaration ==
    /\ phase = "parse"
    /\ parsePc = "loop"
    /\ ~ p_is_at_end(ParserState)
    /\ \E r \in {declaration(ParserState)} :
          /\ r.st = "some"
          /\ statements' = Append(statements, r.node)
          /\ SetParserState(r.p)
    /\ UNCHANGED <<phase, scanVars, ptokens, parsePc, syncLog, interpVars, exitCode>>
    /\ UNCHANGED <<calls, cellVars>>

\* declaration() returned None: synchronize() and the "Parser error" line.
\* syncLog records where the cursor was when the declaration failed (from)
\* and where synchronize left it (to).
ParseSynchronize ==
    /\ phase = "parse"
    /\ parsePc = "loop"
    /\ ~ p_is_at_end(ParserState)
    /\ \E r \in {declaration(ParserState)} :
          /\ r.st = "none"
          /\ \E q \in {synchronize(r.p)} :
                /\ pcurrent' = q.cur
                /\ pdiags' = Append(q.diags, Diag("Parser error", NoToken, q.cur))
                /\ syncLog' = Append(syncLog, [from |-> r.p.cur, to |-> q.cur])
    /\ UNCHANGED <<phase, scanVars, ptokens, statements, parsePc, interpVars, exitCode>>
    /\ UNCHANGED <<calls, cellVars>>

\* declaration() unwound: equality() unwrapped a None left operand.
ParsePanic ==
    /\ phase = "parse"
    /\ parsePc = "loop"
    /\ ~ p_is_at_end(ParserState)
    /\ \E r \in {declaration(ParserState)} :
          /\ r.st = "panic"
          /\ SetParserState(r.p)
    /\ parsePc' = "panic"
    /\ UNCHANGED <<phase, scanVars, ptokens, statements, syncLog, interpVars, exitCode>>
    /\ UNCHANGED <<calls, cellVars>>

\* The loop condition fails: Ok(statements).
ParseDone ==
    /\ phase = "parse"
    /\ parsePc = "loop"
    /\ p_is_at_end(ParserState)
    /\ parsePc' = "done"
    /\ UNCHANGED <<phase, scanVars, ptokens, pcurrent, statements, pdiags, syncLog,
                   interpVars, exitCode>>
    /\ UNCHANGED <<calls, cellVars>>

(***************************************************************************)
(* SpecParse: Parser::parse on every sequence of at most MaxTokens tokens  *)
(* of ParseAlphabet followed by Eof, and on one longer statement.          *)
(***************************************************************************)
ParseAlphabet ==
    { Token("Number", <<"1">>, NumberVal(1), 0),
      Token("Identifier", <<"a">>, NoLiteral, 0),
      Token("EqualEqual", <<"=", "=">>, NoLiteral, 0),
      Token("Equal", <<"=">>, NoLiteral, 0),
      Token("Plus", <<"+">>, NoLiteral, 0),
      Token("SemiColon", <<";">>, NoLiteral, 0),
      Token("Print", <<"p", "r", "i", "n", "t">>, NoLiteral, 0),
      Token("Let", <<"l", "e", "t">>, NoLiteral, 0),
      Token("If", <<"i", "f">>, NoLiteral, 0) }

\* The tokens of `a = a = 1 ;`.
ChainedAssignTokens ==
    << Token("Identifier", <<"a">>, NoLiteral, 0),
       Token("Equal", <<"=">>, NoLiteral, 0),
       Token("Identifier", <<"a">>, NoLiteral, 0),
       Token("Equal", <<"=">>, NoLiteral, 0),
       Token("Number", <<"1">>, NumberVal(1), 0),
       Token("SemiColon", <<";">>, NoLiteral, 0),
       Token("Eof", <<>>, NoLiteral, 0) >>

ParseInputs ==
    {Append(ts, Token("Eof", <<>>, NoLiteral, 0)) :
        ts \in UNION {[1..n -> ParseAlphabet] : n \in 0..MaxTokens}}
    \cup {ChainedAssignTokens}

InitParse ==
    /\ phase = "parse"
    /\ ScanIdle
    /\ \E toks \in ParseInputs : ParserBuilt(toks)
    /\ InterpIdle
    /\ exitCode = -1
    /\ calls = 0
    /\ CellsIdle

NextParse == ParseDeclaration \/ ParseSynchronize \/ ParsePanic \/ ParseDone

SpecParse == InitParse /\ [][NextParse]_vars

(***************************************************************************)
(* Parser claims.                                                          *)
(***************************************************************************)
\* C2: for every Eof-terminated token sequence parse completes with Ok and
\* the cursor on the Eof token; it never panics.
C2_ParseCompletesOnEof ==
    /\ parsePc # "panic"
    /\ parsePc = "done" => p_peek(ParserState).kind = "Eof"

StmtKeywords == {"Print", "Let", "Const"}

\* The positions from f on where a statement can be picked up again: a token
\* print, let or const, or the token after a `;` that is at f or later.
StartsAtOrAfter(f) ==
    {t \in f..(Len(ptokens) - 1) :
        \/ peek_index(t).kind \in StmtKeywords
        \/ t > f /\ peek_index(t - 1).kind = "SemiColon"}

StartsAfter(f) == {t \in StartsAtOrAfter(f) : t > f}

Min(S) == CHOOSE x \in S : \A y \in S : x <= y

\* The statement that starts at token t, when there is one, is in the list.
InReturnedList(t) ==
    \A d \in {declaration([cur |-> t, diags |-> <<>>])} :
        d.st = "some" => \E k \in DOMAIN statements : statements[k] = d.node

InterpreterBuilt(stmts) ==
    /\ program = stmts
    /\ ip = 0
    /\ env = <<>>
    /\ result = <<>>
    /\ output = <<>>
    /\ rtErrors = 0
    /\ interpPc = "loop"
    /\ last = NoLast

Executed(stmt, x) ==
    [stmt |-> stmt, before |-> env, st |-> x.st, val |-> x.val, err |-> x.err,
     log |-> x.log]

\* execute(statement) returned Ok(v): vec.push(v).
InterpretOk ==
    /\ phase = "interp"
    /\ interpPc = "loop"
    /\ ip < Len(program)
    /\ \E x \in {execute(program[ip + 1], env)} :
          /\ x.st = "ok"
          /\ result' = Append(result, x.val)
          /\ env' = x.env
          /\ output' = output \o x.out
          /\ last' = Executed(program[ip + 1], x)
    /\ ip' = ip + 1
    /\ UNCHANGED <<phase, scanVars, parseVars, program, rtErrors, interpPc, exitCode>>
    /\ UNCHANGED <<calls, cellVars>>

\* execute(statement) returned Err(e): Reporter::runtime_error(&e).
InterpretErr ==
    /\ phase = "interp"
    /\ interpPc = "loop"
    /\ ip < Len(program)
    /\ \E x \in {execute(program[ip + 1], env)} :
          /\ x.st = "err"
          /\ env' = x.env
          /\ last' = Executed(program[ip + 1], x)
    /\ rtErrors' = rtErrors + 1
    /\ ip' = ip + 1
    /\ UNCHANGED <<phase, scanVars, parseVars, program, result, output, interpPc,
                   exitCode>>
    /\ UNCHANGED <<calls, cellVars>>

\* execute(statement) unwound: a second borrow_mut() of the environment or
\* an i32 division that panics (by zero, or i32::MIN by -1).
InterpretPanic ==
    /\ phase = "interp"
    /\ interpPc = "loop"
    /\ ip < Len(program)
    /\ \E x \in {execute(program[ip + 1], env)} :
          /\ x.st = "panic"
          /\ env' = x.env
          /\ last' = Executed(program[ip + 1], x)
    /\ interpPc' = "panic"
    /\ UNCHANGED <<phase, scanVars, parseVars, program, ip, result, output, rtErrors,
                   exitCode>>
    /\ UNCHANGED <<calls, cellVars>>

\* The statements are exhausted: Ok(vec).
InterpretDone ==
    /\ phase = "interp"
    /\ interpPc = "loop"
    /\ ip = Len(program)
    /\ interpPc' = "done"
    /\ UNCHANGED <<phase, scanVars, parseVars, program, ip, env, result, output,
                   rtErrors, last, exitCode>>
    /\ UNCHANGED <<calls, cellVars>>

(***************************************************************************)
(* SpecInterp: interpret on every list of at most MaxStmts statements of   *)
(* InterpStmts, from an empty environment.                                 *)
(***************************************************************************)
InterpStmts ==
    LET a == Token("Identifier", <<"a">>, NoLiteral, 0)
        b == Token("Identifier", <<"b">>, NoLiteral, 0)
        plus == Token("Plus", <<"+">>, NoLiteral, 0)
        slash == Token("Slash", <<"/">>, NoLiteral, 0)
        num(i) == Literal(NumberVal(i))
        operands == {num(1), Variable(a), Variable(b),
                     Assign(a, num(1)), Assign(a, num(2)), Assign(a, Variable(b))}
        exprs == operands
                 \cup {Binary(l, plus, r) : l \in operands, r \in operands}
                 \cup {Binary(num(1), slash, num(0))}
    IN  {ExpressionStmt(x) : x \in exprs}
        \cup {PrintStmt(Variable(a)), PrintStmt(Variable(b))}
        \cup {LetStmt(a, num(1)), LetStmt(b, num(2)), LetStmt(b, Variable(a)),
              LetStmt(b, Assign(a, num(2))),
              LetStmt(b, Binary(num(1), plus, num(2))),
              ConstStmt(b, num(1))}

InterpPrograms == UNION {[1..n -> InterpStmts] : n \in 0..MaxStmts}

InitInterp ==
    /\ phase = "interp"
    /\ ScanIdle
    /\ ParseIdle
    /\ \E stmts \in InterpPrograms : InterpreterBuilt(stmts)
    /\ exitCode = -1
    /\ calls = 0
    /\ CellsIdle

NextInterp == InterpretOk \/ InterpretErr \/ InterpretPanic \/ InterpretDone

SpecInterp == InitInterp /\ [][NextInterp]_vars

(***************************************************************************)
(* Interpreter claims.                                                     *)
(***************************************************************************)
\* C5: executing Let(name, init) with an initializer that evaluates
\* successfully, one that reads or assigns defined variables included,
\* binds name to the initializer's value and yields that value.
C5_LetBindsInitializer ==
    last.stmt.type = "Let" =>
        \A init \in {evaluate(last.stmt.initializer, last.before, FALSE)} :
            init.st = "ok" =>
                /\ last.st = "ok"
                /\ last.val = init.val
                /\ env = define(init.env, last.stmt.name.lexeme, init.val)

\* C6: interpret never aborts: it executes every statement, returns Ok, and
\* every statement either contributed its value or was reported.
C6_InterpretNeverAborts ==
    /\ interpPc # "panic"
    /\ interpPc = "done" =>
          /\ ip = Len(program)
          /\ Len(result) + rtErrors = Len(program)

\* C10: in a Binary expression the right operand is evaluated completely
\* before the left one: the effects and the log of the evaluation are those
\* of the right operand followed by those of the left operand run in the
\* environment the right one left, and when the right operand raises an
\* error the left operand is not evaluated at all.
C10_RightOperandFirst ==
    (last.stmt.type = "Expression" /\ last.stmt.expression.type = "Binary") =>
        \A right \in {evaluate(last.stmt.expression.right, last.before, FALSE)} :
            /\ right.st = "err" =>
                  /\ last.st = "err"
                  /\ last.log = right.log
                  /\ env = right.env
            /\ right.st = "ok" =>
                  \A left \in {evaluate(last.stmt.expression.left, right.env, FALSE)} :
                      /\ last.log = right.log \o left.log
                      /\ env = left.env
                      /\ left.st = "err" => last.st = "err"

\* Both operands assign the same variable, the right one 2 and the left one
\* 1, and the left one's value is the one that stays.
C10_Witness ==
    /\ last.stmt.type = "Expression"
    /\ last.stmt.expression.type = "Binary"
    /\ last.stmt.expression.left.type = "Assign"
    /\ last.stmt.expression.right.type = "Assign"
    /\ last.stmt.expression.left.value # last.stmt.expression.right.value
    /\ last.st = "ok"
    /\ last.stmt.expression.right.value = Literal(NumberVal(2))
    /\ env[<<"a">>] = NumberVal(1)

(***************************************************************************)
(* The driver (oxa.rs): Oxa::run hands the scanner's tokens to the parser  *)
(* and the parser's statements to the interpreter, and main exits with the *)
(* code of run's result.                                                   *)
(***************************************************************************)
get_return_code(e) ==
    CASE e = "InvalidTokenKey" -> 4
      [] e = "FileError" -> 10
      [] e = "IO" -> 11
      [] e = "ProcessError" -> 12
      [] e = "ParserError" -> 3
      [] e = "RuntimeError" -> 2
      [] OTHER -> 1

exit_with_return_code(res) == IF res.ok THEN 0 ELSE get_return_code(res.err)

\* let tokens = scanner.scan_tokens()?; Parser::from_tokens(&tokens)
RunParse ==
    /\ phase = "scan"
    /\ scanPc = "done"
    /\ phase' = "parse"
    /\ ptokens' = tokens
    /\ pcurrent' = 0
    /\ statements' = <<>>
    /\ pdiags' = <<>>
    /\ parsePc' = "loop"
    /\ syncLog' = <<>>
    /\ UNCHANGED <<scanVars, interpVars, exitCode>>
    /\ UNCHANGED <<calls, cellVars>>

\* A RunInterpret that starts every call with an empty environment.
RunInterpret_fresh_env ==
    /\ phase = "parse"
    /\ parsePc = "done"
    /\ phase' = "interp"
    /\ program' = statements
    /\ ip' = 0
    /\ env' = <<>>
    /\ result' = <<>>
    /\ interpPc' = "loop"
    /\ UNCHANGED <<scanVars, parseVars, output, rtErrors, last, exitCode>>
    /\ UNCHANGED <<calls, cellVars>>

\* let expression = parser.parse()?; interpreter.borrow_mut().interpret(..)
\* on the driver's interpreter, whose environment is kept.
RunInterpret ==
    /\ phase = "parse"
    /\ parsePc = "done"
    /\ phase' = "interp"
    /\ program' = statements
    /\ ip' = 0
    /\ result' = <<>>
    /\ interpPc' = "loop"
    /\ UNCHANGED <<scanVars, parseVars, env, output, rtErrors, last, exitCode>>
    /\ UNCHANGED <<calls, cellVars>>

\* run returns: Err(ProcessError) out of scan_tokens()?, or Ok(()) once
\* interpret returned, which always is Ok; main exits with the result's code.
RunReturn ==
    /\ \/ phase = "scan" /\ scanPc = "err"
       \/ phase = "interp" /\ interpPc = "done"
    /\ phase' = "exit"
    /\ exitCode' = exit_with_return_code(
                       IF scanPc = "err"
                       THEN [ok |-> FALSE, err |-> "ProcessError"]
                       ELSE [ok |-> TRUE, err |-> ""])
    /\ UNCHANGED <<scanVars, parseVars, interpVars>>
    /\ UNCHANGED <<calls, cellVars>>

\* A panic unwinds out of main: the process exits with status 101.
RunAbort ==
    /\ \/ phase = "parse" /\ parsePc = "panic"
       \/ phase = "interp" /\ interpPc = "panic"
    /\ phase' = "exit"
    /\ exitCode' = 101
    /\ UNCHANGED <<scanVars, parseVars, interpVars>>
    /\ UNCHANGED <<calls, cellVars>>

(***************************************************************************)
(* SpecRun: one Oxa::run on each source of RunSources.                     *)
(***************************************************************************)
\* `let a = 1; a = a + 4; print a;`
SrcLetAssignPrint ==
    <<"l", "e", "t", " ", "a", " ", "=", " ", "1", ";", " ", "a", " ", "=",
      " ", "a", " ", "+", " ", "4", ";", " ", "p", "r", "i", "n", "t", " ",
      "a", ";">>

\* `a * b / c ;`
SrcMulDiv ==
    <<"a", " ", "*", " ", "b", " ", "/", " ", "c", " ", ";">>

\* `print 2 * 3 * 4;`
SrcPrintProduct ==
    <<"p", "r", "i", "n", "t", " ", "2", " ", "*", " ", "3", " ", "*", " ",
      "4", ";">>

\* `print foo;`
SrcPrintUndefined ==
    <<"p", "r", "i", "n", "t", " ", "f", "o", "o", ";">>

\* `print "a"`, with no `;`.
SrcPrintNoSemiColon ==
    <<"p", "r", "i", "n", "t", " ", "\"", "a", "\"">>

\* `1 print 2;`, the first statement with no `;`.
SrcTwoStmtsOneSemiColon ==
    <<"1", " ", "p", "r", "i", "n", "t", " ", "2", ";">>

\* And the sources `== 1;`, `1/0;` and `print 1; // c`.
RunSources ==
    {SrcLetAssignPrint, SrcMulDiv, SrcPrintProduct, SrcPrintUndefined,
     SrcPrintNoSemiColon, SrcTwoStmtsOneSemiColon,
     <<"=", "=", " ", "1", ";">>,
     <<"1", "/", "0", ";">>,
     <<"p", "r", "i", "n", "t", " ", "1", ";", " ", "/", "/", " ", "c">>}

InitRun ==
    /\ phase = "scan"
    /\ \E src \in RunSources : ScannerBuilt(src)
    /\ ParseIdle
    /\ InterpIdle
    /\ exitCode = -1
    /\ calls = 1
    /\ CellsIdle

NextRun ==
    \/ ScanNextToken \/ CommentLoop \/ ScanEof \/ RunParse
    \/ ParseDeclaration \/ ParseSynchronize \/ ParsePanic \/ ParseDone
    \/ RunInterpret
    \/ InterpretOk \/ InterpretErr \/ InterpretPanic \/ InterpretDone
    \/ RunReturn \/ RunAbort

SpecRun == InitRun /\ [][NextRun]_vars

(***************************************************************************)
(* Claims about a whole run.                                               *)
(***************************************************************************)
\* C4: running `let a = 1; a = a + 4; print a;` prints 5 and leaves a bound
\* to Number 5.
C4_LetAssignPrintGivesFive ==
    (source = SrcLetAssignPrint /\ phase = "exit") =>
        /\ output = <<<<"5">>>>
        /\ <<"a">> \in DOMAIN env
        /\ env[<<"a">>] = NumberVal(5)

C9_RuntimeErrorExitsWithTwo ==
    (source = SrcPrintUndefined /\ phase = "exit") =>
        /\ rtErrors >= 1
        /\ exitCode = 2

(***************************************************************************)
(* Claims about the lines and the lexemes of the scanned tokens.           *)
(***************************************************************************)
\* C11: token line numbers start at 1: in the list returned for a source,
\* every token on the first line has line 1, no token has a line below 1,
\* and the Eof token, which every newline of the source precedes, has line
\* 1 + the number of newlines.
C11_LinesStartAtOne ==
    scanPc = "done" =>
        /\ \A i \in 1..Len(tokens) : tokens[i].line >= 1
        /\ tokens[Len(tokens)].line =
              1 + Cardinality({j \in 1..Len(source) : source[j] = "\n"})

\* C12: in every token list the scanner returns the last token is Eof, no
\* other token is Eof, and the line numbers never decrease along the list,
\* so that the Eof token's line is at least the line of every other token.
C12_EofLastAndLinesMonotone ==
    scanPc = "done" =>
        /\ tokens # <<>>
        /\ tokens[Len(tokens)].kind = "Eof"
        /\ \A i \in 1..(Len(tokens) - 1) :
              /\ tokens[i].kind # "Eof"
              /\ tokens[i].line <= tokens[i + 1].line
        /\ \A i \in 1..Len(tokens) : tokens[i].line <= tokens[Len(tokens)].line

\* A returned list with tokens on two lines before the Eof token.
C12_Witness ==
    /\ scanPc = "done"
    /\ Len(tokens) >= 3
    /\ tokens[1].line < tokens[2].line
    /\ tokens[2].kind # "Eof"

\* The source from position i on is made of the lexemes of the tokens from
\* index k on, in order, between runs of whitespace, `//` comments (up to
\* the newline or the end) and, when a diagnostic was reported, the
\* unterminated string it was reported for.
RECURSIVE Reproduces(_, _)
Reproduces(i, k) ==
    LET n == Len(source)
        lexeme == tokens[k].lexeme
        comment_end == IF \E j \in i..n : source[j] = "\n"
                       THEN CHOOSE j \in i..n :
                                /\ source[j] = "\n"
                                /\ \A h \in i..(j - 1) : source[h] # "\n"
                       ELSE n + 1
    IN  IF i > n THEN tokens[k].kind = "Eof"
        ELSE \/ /\ tokens[k].kind # "Eof"
                /\ lexeme # <<>>
                /\ i + Len(lexeme) - 1 <= n
                /\ SubSeq(source, i, i + Len(lexeme) - 1) = lexeme
                /\ Reproduces(i + Len(lexeme), k + 1)
             \/ /\ source[i] \in {" ", "\r", "\t", "\n"}
                /\ Reproduces(i + 1, k)
             \/ /\ i < n
                /\ source[i] = "/"
                /\ source[i + 1] = "/"
                /\ Reproduces(comment_end, k)
             \/ /\ scanDiags > 0
                /\ source[i] \in {"\"", "'"}
                /\ tokens[k].kind = "Eof"

\* C13: the lexemes of the returned non-Eof tokens are disjoint in-order
\* slices of the source and every other character is whitespace, part of a
\* `//` comment or reported by a diagnostic: lexemes and skipped text,
\* concatenated in order, give the source back.
C13_LexemesReproduceSource ==
    scanPc = "done" => Reproduces(1, 1)

\* The number of newlines among the characters i..j of the source.
Newlines(i, j) == Cardinality({k \in i..j : source[k] = "\n"})

RECURSIVE RunEnd(_)
RunEnd(i) ==
    IF i < Len(source) /\ source[i + 1] \in Letters \cup Digits
    THEN RunEnd(i + 1)
    ELSE i

\* C25: an iteration of the scanner that starts at a letter emits exactly
\* one token whose lexeme is the whole run of letters and digits from there,
\* of the keyword's kind when the run is a reserved word and Identifier
\* otherwise, and stops at the end of the run: what one lex of the run and
\* one keyword lookup give.
C25_AlphanumericRunIsOneToken ==
    [][(/\ scanPc = "loop"
        /\ current < Len(source)
        /\ source[current + 1] \in Letters) =>
          LET run == SubSeq(source, current + 1, RunEnd(current))
          IN  /\ tokens' = Append(tokens,
                     Token(IF IsKeyword(run) THEN KEYWORDS[run] ELSE "Identifier",
                           run, NoLiteral, line))
              /\ current' = RunEnd(current)
      ]_vars

\* C29: an iteration of the scanner that starts at a character no lexical
\* rule matches (here `@`) reports exactly one diagnostic, emits no token
\* and lets the scan go on, which ends with Ok and Eof.
C29_UnknownCharacterIsReported ==
    [][/\ (/\ scanPc = "loop"
           /\ current < Len(source)
           /\ source[current + 1] = "@") =>
             /\ scanDiags' = scanDiags + 1
             /\ tokens' = tokens
             /\ scanPc' = "loop"
       /\ scanPc' = "done" =>
             /\ tokens' # <<>>
             /\ tokens'[Len(tokens')].kind = "Eof"
      ]_vars

(***************************************************************************)
(* Claims about assignment targets and statement terminators.              *)
(***************************************************************************)
\* C14: when the expression of a pushed expression or print statement is
\* `E = A`, with E what the equality rule parses before the `=` and A what
\* is parsed after it, then for E a Variable the statement's expression is
\* Assign(name of E, A) and otherwise it is E itself, "Invalid assignment
\* target." is reported at the `=` token right after the reports of A, and
\* the cursor is past A; `a = a = 1 ;` gives Assign(a, Assign(a, 1)) and
\* no report.
C14_InvalidAssignmentTarget ==
    [][(/\ phase = "parse"
        /\ parsePc = "loop"
        /\ Len(statements') = Len(statements) + 1
        /\ statements'[Len(statements')].type \in {"Expression", "Print"}) =>
          LET stmt == statements'[Len(statements')]
              q == IF stmt.type = "Print" THEN p_advance(ParserState)
                   ELSE ParserState
              E == equality(q)
              equals == p_peek(E.p)
              A == assignment(p_advance(E.p))
              n == Len(A.p.diags)
              name == Token("Identifier", <<"a">>, NoLiteral, 0)
          IN  /\ (E.st = "some" /\ equals.kind = "Equal" /\ A.st = "some") =>
                    /\ pcurrent' >= A.p.cur
                    /\ SubSeq(pdiags', 1, n) = A.p.diags
                    /\ IF E.node.type = "Variable"
                       THEN /\ stmt.expression = Assign(E.node.name, A.node)
                            /\ \A i \in (n + 1)..Len(pdiags') :
                                  pdiags'[i].message # "Invalid assignment target."
                       ELSE /\ stmt.expression = E.node
                            /\ Len(pdiags') > n
                            /\ pdiags'[n + 1] =
                                  Diag("Invalid assignment target.", equals,
                                       equals.line)
              /\ (ptokens = ChainedAssignTokens /\ pcurrent = 0) =>
                    /\ stmt = ExpressionStmt(
                                 Assign(name,
                                        Assign(name, Literal(NumberVal(1)))))
                    /\ pdiags' = <<>>
                    /\ pcurrent' = 6
      ]_vars

\* `1 = a ;` parsed: the statement is the expression 1, reported once.
C14_Witness ==
    /\ phase = "parse"
    /\ Len(ptokens) >= 3
    /\ ptokens[1].kind = "Number"
    /\ ptokens[2].kind = "Equal"
    /\ ptokens[3].kind = "Identifier"
    /\ statements = <<ExpressionStmt(Literal(NumberVal(1)))>>
    /\ pcurrent >= 3
    /\ pdiags # <<>>
    /\ pdiags[1] = Diag("Invalid assignment target.", ptokens[2], ptokens[2].line)

\* C15: a pushed expression or print statement whose last token is not `;`
\* comes with the report "Expect ';' after expression." at the token the
\* parser stopped on, and is executed like any other; the source
\* `print "a"` gives that report at Eof, the statement Print("a"), the
\* output line a and a normal return.
C15_MissingSemiColonStillRuns ==
    [][/\ (/\ phase = "parse"
           /\ parsePc = "loop"
           /\ Len(statements') = Len(statements) + 1
           /\ statements'[Len(statements')].type \in {"Expression", "Print"}
           /\ peek_index(pcurrent' - 1).kind # "SemiColon") =>
             /\ pdiags' # <<>>
             /\ pdiags'[Len(pdiags')] =
                   Diag("Expect ';' after expression.", peek_index(pcurrent'),
                        peek_index(pcurrent').line)
       /\ (phase = "interp" /\ phase' = "exit" /\ interpPc = "done") =>
             /\ program = statements
             /\ ip = Len(statements)
       /\ (source = SrcPrintNoSemiColon /\ phase' = "exit") =>
             /\ statements' = <<PrintStmt(Literal(StringVal(<<"a">>)))>>
             /\ pdiags' = <<Diag("Expect ';' after expression.",
                                 Token("Eof", <<>>, NoLiteral, 0), 0)>>
             /\ output' = <<<<"a">>>>
             /\ rtErrors' = 0
             /\ exitCode' = 0
      ]_vars

\* The run of `print "a"` has returned, with its report and its output.
C15_Witness ==
    /\ source = SrcPrintNoSemiColon
    /\ phase = "exit"
    /\ Len(pdiags) = 1
    /\ pdiags[1].message = "Expect ';' after expression."
    /\ output = <<<<"a">>>>

(***************************************************************************)
(* SpecEval: interpret on one expression statement, a binary or a unary    *)
(* operator applied to literals of every kind.                             *)
(***************************************************************************)
\* The literals the operands are drawn from; i32::MIN is added for `/`.
EvalValues ==
    { NumberVal(-7), NumberVal(-1), NumberVal(0), NumberVal(1), NumberVal(2),
      NumberVal(3),
      NumberVal(10), FloatVal(15), FloatVal(20),
      StringVal(<<"s", "t", "r">>), StringVal(<<"1", "0">>),
      BoolVal(TRUE), BoolVal(FALSE), NilVal }

\* An f32 division by zero is left out: its result is not a value of the
\* model.
EvalStmts ==
    LET op(kind) == Token(kind, <<>>, NoLiteral, 0)
        binary == {"Plus", "Minus", "Slash", "Star", "Greater", "GreaterEqual",
                   "Less", "LessEqual", "BangEqual", "EqualEqual", "And"}
        lit(v) == Literal(v)
        num(i) == Literal(NumberVal(i))
        min == -I32Max - 1
        f32_by_zero(k, l, r) ==
            /\ k = "Slash"
            /\ IsNum(l) /\ IsNum(r)
            /\ "Float" \in {l.kind, r.kind}
            /\ r.n = 0
    IN  {ExpressionStmt(Binary(lit(l), op(k), lit(r))) :
            <<l, k, r>> \in {t \in EvalValues \X binary \X EvalValues :
                                ~ f32_by_zero(t[2], t[1], t[3])}}
        \cup {ExpressionStmt(Unary(op(k), lit(v))) :
                k \in {"Bang", "Minus", "Plus"}, v \in EvalValues}
        \cup {ExpressionStmt(Binary(num(min), op("Slash"), num(-1))),
              ExpressionStmt(Binary(Binary(num(0), op("Minus"), num(7)),
                                    op("Slash"), num(2))),
              ExpressionStmt(Binary(Binary(Binary(num(0), op("Minus"), num(I32Max)),
                                           op("Minus"), num(1)),
                                    op("Slash"),
                                    Binary(num(0), op("Minus"), num(1))))}

InitEval ==
    /\ phase = "interp"
    /\ ScanIdle
    /\ ParseIdle
    /\ \E stmt \in EvalStmts : InterpreterBuilt(<<stmt>>)
    /\ exitCode = -1
    /\ calls = 0
    /\ CellsIdle

SpecEval == InitEval /\ [][NextInterp]_vars

(***************************************************************************)
(* Claims about operators applied to values.                               *)
(***************************************************************************)
\* C16: a binary `+` whose operands are not both Number, Float or String,
\* and a binary - * / < <= > >= whose operands are not both Number or
\* Float, yields Err(RuntimeError); no arithmetic expression evaluates to
\* Nil.
C16_OperandChecksPrecedeArithmetic ==
    (last.stmt.type = "Expression" /\ last.stmt.expression.type = "Binary") =>
        LET expr == last.stmt.expression
            k == expr.operator.kind
            numeric == {"Number", "Float"}
            allowed == IF k = "Plus" THEN numeric \cup {"String"} ELSE numeric
        IN  /\ (/\ expr.left.type = "Literal"
                /\ expr.right.type = "Literal"
                /\ k \in {"Plus", "Minus", "Star", "Slash", "Less", "LessEqual",
                          "Greater", "GreaterEqual"}
                /\ ~ (/\ ObjectFrom(expr.left.value).kind \in allowed
                      /\ ObjectFrom(expr.right.value).kind \in allowed)) =>
                    /\ last.st = "err"
                    /\ last.err = "RuntimeError"
            /\ (k \in {"Plus", "Minus", "Star", "Slash"} /\ last.st = "ok") =>
                    last.val.kind # "Nil"

\* "str" + nil was evaluated, to a runtime error.
C16_Witness ==
    /\ last.stmt.type = "Expression"
    /\ last.stmt.expression.type = "Binary"
    /\ last.stmt.expression.operator.kind = "Plus"
    /\ last.stmt.expression.left = Literal(StringVal(<<"s", "t", "r">>))
    /\ last.stmt.expression.right = Literal(NilVal)
    /\ last.st = "err"
    /\ rtErrors = 1

C18_NumberDivisionTruncates ==
    (/\ last.stmt.type = "Expression"
     /\ last.stmt.expression.type = "Binary"
     /\ last.stmt.expression.operator.kind = "Slash") =>
        LET expr == last.stmt.expression
            a == expr.left.value.n
            b == expr.right.value.n
            q == last.val.n
            rem == a - q * b
            seven_by_two ==
                /\ expr.left.type = "Binary"
                /\ expr.left.operator.kind = "Minus"
                /\ expr.left.left = Literal(NumberVal(0))
                /\ expr.left.right = Literal(NumberVal(7))
                /\ expr.right = Literal(NumberVal(2))
        IN  /\ (/\ expr.left.type = "Literal"
                /\ expr.right.type = "Literal"
                /\ expr.left.value.kind = "Number"
                /\ expr.right.value.kind = "Number"
                /\ b # 0) =>
                    /\ last.st = "ok"
                    /\ last.val.kind = "Number"
                    /\ Abs(rem) < Abs(b)
                    /\ rem = 0 \/ (rem < 0) = (a < 0)
            /\ seven_by_two => (last.st = "ok" /\ last.val = NumberVal(-3))

C20_EqualityIsKindAndValue ==
    (/\ last.stmt.type = "Expression"
     /\ last.stmt.expression.type = "Binary"
     /\ last.stmt.expression.left.type = "Literal"
     /\ last.stmt.expression.right.type = "Literal"
     /\ last.stmt.expression.left.value.kind \in {"Number", "String", "Bool", "Nil"}
     /\ last.stmt.expression.right.value.kind \in {"Number", "String", "Bool", "Nil"}) =>
        LET a == last.stmt.expression.left.value
            b == last.stmt.expression.right.value
            k == last.stmt.expression.operator.kind
            same == /\ a.kind = b.kind
                    /\ CASE a.kind = "Number" -> a.n = b.n
                         [] a.kind = "String" -> a.s = b.s
                         [] a.kind = "Bool" -> a.b = b.b
                         [] OTHER -> TRUE
        IN  /\ k = "EqualEqual" => (last.st = "ok" /\ last.val = BoolVal(same))
            /\ k = "BangEqual" => (last.st = "ok" /\ last.val = BoolVal(~ same))
            /\ (k = "EqualEqual" /\ a.kind # b.kind) => last.val = BoolVal(FALSE)
            /\ (k = "EqualEqual" /\ a = NilVal /\ b = NilVal) =>
                  last.val = BoolVal(TRUE)
            /\ (k \in {"Less", "Greater"} /\ same) =>
                  ~ (last.st = "ok" /\ last.val = BoolVal(TRUE))

\* 2 < 2 was evaluated, to false.
C20_Witness ==
    /\ last.stmt.type = "Expression"
    /\ last.stmt.expression.type = "Binary"
    /\ last.stmt.expression.operator.kind = "Less"
    /\ last.stmt.expression.left = Literal(NumberVal(2))
    /\ last.stmt.expression.right = Literal(NumberVal(2))
    /\ last.st = "ok"
    /\ last.val = BoolVal(FALSE)

\* C28: a comparison of a Number with a Float, in either operand order,
\* gives the comparison of the two real values, the Number taken as a
\* Float: 1 < 1.5 and 1.5 > 1 are true, and so for <=, > and >=.
C28_NumberIsPromotedInComparisons ==
    (/\ last.stmt.type = "Expression"
     /\ last.stmt.expression.type = "Binary"
     /\ last.stmt.expression.operator.kind \in
            {"Less", "LessEqual", "Greater", "GreaterEqual"}
     /\ last.stmt.expression.left.type = "Literal"
     /\ last.stmt.expression.right.type = "Literal"
     /\ {last.stmt.expression.left.value.kind,
         last.stmt.expression.right.value.kind} = {"Number", "Float"}) =>
        LET l == F32Of(last.stmt.expression.left.value)
            r == F32Of(last.stmt.expression.right.value)
            k == last.stmt.expression.operator.kind
        IN  /\ last.st = "ok"
            /\ last.val = BoolVal(CASE k = "Less" -> l < r
                                    [] k = "LessEqual" -> l <= r
                                    [] k = "Greater" -> l > r
                                    [] k = "GreaterEqual" -> l >= r)

(***************************************************************************)
(* SpecBind: interpret on every list of at most MaxBind statements that    *)
(* define or assign the names a and b, from an empty environment.          *)
(***************************************************************************)
BindStmts ==
    LET a == Token("Identifier", <<"a">>, NoLiteral, 0)
        b == Token("Identifier", <<"b">>, NoLiteral, 0)
        c == Token("Identifier", <<"c">>, NoLiteral, 0)
        plus == Token("Plus", <<"+">>, NoLiteral, 0)
        num(i) == Literal(NumberVal(i))
        fails == Binary(num(1), plus, Literal(NilVal))
    IN  {LetStmt(a, num(1)), LetStmt(a, num(2)), LetStmt(b, num(2)),
         ConstStmt(a, num(3)), ConstStmt(b, num(4)),
         ExpressionStmt(Assign(a, num(5))), ExpressionStmt(Assign(b, num(6))),
         LetStmt(a, fails), ConstStmt(b, fails),
         ExpressionStmt(Assign(a, fails)),
         ExpressionStmt(Assign(b, Variable(c))),
         ExpressionStmt(Binary(Assign(a, num(7)), plus, Assign(b, fails))),
         ExpressionStmt(Assign(a, Binary(fails, plus, Grouping(Assign(a, num(7)))))),
         LetStmt(b, Variable(a))}

BindPrograms == UNION {[1..n -> BindStmts] : n \in 0..MaxBind}

InitBind ==
    /\ phase = "interp"
    /\ ScanIdle
    /\ ParseIdle
    /\ \E stmts \in BindPrograms : InterpreterBuilt(stmts)
    /\ exitCode = -1
    /\ calls = 0
    /\ CellsIdle

SpecBind == InitBind /\ [][NextInterp]_vars

(***************************************************************************)
(* Claims about bindings.                                                  *)
(***************************************************************************)
\* interpret(stmts) from the environment e, as one value: the environment
\* and the vector it leaves and whether it returned or unwound.
RECURSIVE Interpreted(_, _, _)
Interpreted(stmts, e, vec) ==
    IF stmts = <<>> THEN [pc |-> "done", env |-> e, result |-> vec]
    ELSE Let1(execute(Head(stmts), e), LAMBDA x :
            IF x.st = "panic" THEN [pc |-> "panic", env |-> x.env, result |-> vec]
            ELSE Interpreted(Tail(stmts), x.env,
                             IF x.st = "ok" THEN Append(vec, x.val) ELSE vec))


\* The statement the claim about reordering speaks of: a Let or an
\* assignment whose right-hand side is a literal.
LiteralBinding(stmt) ==
    \/ stmt.type = "Let" /\ stmt.initializer.type = "Literal"
    \/ /\ stmt.type = "Expression"
       /\ stmt.expression.type = "Assign"
       /\ stmt.expression.value.type = "Literal"

BoundName(stmt) ==
    IF stmt.type \in {"Let", "Const"} THEN stmt.name.lexeme
    ELSE stmt.expression.name.lexeme

\* The orders of stmts that keep the statements on one name in their order.
Reorderings(stmts) ==
    LET n == Len(stmts)
        perms == {f \in [1..n -> 1..n] : \A i, j \in 1..n : f[i] = f[j] => i = j}
        keeps(f) == \A i, j \in 1..n :
                       (i < j /\ BoundName(stmts[f[i]]) = BoundName(stmts[f[j]]))
                           => f[i] < f[j]
    IN  {[i \in 1..n |-> stmts[f[i]]] : f \in {g \in perms : keeps(g)}}

\* C23: a program of Let statements and assignments with literal right-hand
\* sides leaves the same environment in every order that keeps the
\* statements on one name in their relative order.
C23_OrderAcrossNamesIsIrrelevant ==
    (/\ interpPc = "done"
     /\ \A i \in DOMAIN program : LiteralBinding(program[i])) =>
        \A q \in Reorderings(program) : Interpreted(q, <<>>, <<>>).env = env

\* let a = 1; let b = 2; a = 5; was executed; `let b = 2` can move to
\* either end.
C23_Witness ==
    /\ interpPc = "done"
    /\ Len(program) = 3
    /\ \A i \in 1..3 : LiteralBinding(program[i])
    /\ <<BoundName(program[1]), BoundName(program[2]), BoundName(program[3])>>
          = << <<"a">>, <<"b">>, <<"a">> >>
    /\ program[3].type = "Expression"
    /\ Cardinality(Reorderings(program)) = 3
    /\ env = (<<"a">> :> NumberVal(5)) @@ (<<"b">> :> NumberVal(2))


\* The binding of the name n in the environment e: empty when n is absent.
Binding(e, n) == IF n \in DOMAIN e THEN <<e[n]>> ELSE <<>>

\* The last statement was a Let, a Const or an assignment and returned Err.
FailedBinding ==
    /\ last.st = "err"
    /\ \/ last.stmt.type \in {"Let", "Const"}
       \/ last.stmt.type = "Expression" /\ last.stmt.expression.type = "Assign"

\* The events of evaluating the right-hand side of the last statement, a
\* failed binding: what was evaluated before the binding itself.
EvaluatedBefore ==
    IF last.stmt.type = "Expression"
    THEN evaluate(last.stmt.expression.value, last.before, FALSE).log
    ELSE evaluate(last.stmt.initializer, last.before, TRUE).log

AssignedBefore(n) ==
    \E i \in DOMAIN EvaluatedBefore : EvaluatedBefore[i] = Event("assign", n)

\* C30 as stated: after a failed Let, Const or assignment the binding of its
\* name is exactly what it was before the statement, and so is the binding
\* of every name not assigned inside an already-evaluated subexpression.
C30_FailedBindingLeavesTarget ==
    FailedBinding =>
        /\ Binding(env, BoundName(last.stmt)) =
              Binding(last.before, BoundName(last.stmt))
        /\ \A n \in (DOMAIN env) \cup (DOMAIN last.before) :
              ~ AssignedBefore(n) => Binding(env, n) = Binding(last.before, n)

\* C30: a failed Let, Const or assignment creates no binding, and leaves
\* the binding of every name, its own included, that no already-evaluated
\* subexpression assigned exactly as it was before the statement.
C30_FailedBindingWritesNothing ==
    FailedBinding =>
        /\ DOMAIN env = DOMAIN last.before
        /\ \A n \in DOMAIN env : ~ AssignedBefore(n) => env[n] = last.before[n]

\* let a = 1; ran and then `a = 1 + nil;` failed: a is still 1.
C30_Witness ==
    /\ FailedBinding
    /\ ip = 2
    /\ last.stmt.type = "Expression"
    /\ last.stmt.expression.name.lexeme = <<"a">>
    /\ last.stmt.expression.value.type = "Binary"
    /\ last.err = "RuntimeError"
    /\ last.before = (<<"a">> :> NumberVal(1))
    /\ env = (<<"a">> :> NumberVal(1))

\* C21: a program and the program with every Const replaced by the Let of
\* the same name and initializer end alike, with the same returned values
\* and the same environment; and an assignment of a literal to a name the
\* statement before it defined with Const succeeds and overwrites the
\* value.
C21_ConstIsLet ==
    /\ interpPc \in {"done", "panic"} =>
          LET as_let(stmt) == IF stmt.type = "Const"
                              THEN LetStmt(stmt.name, stmt.initializer)
                              ELSE stmt
              lets == [i \in DOMAIN program |-> as_let(program[i])]
          IN  Interpreted(lets, <<>>, <<>>) =
                  [pc |-> interpPc, env |-> env, result |-> result]
    /\ (/\ ip >= 2
        /\ last.stmt = program[ip]
        /\ program[ip - 1].type = "Const"
        /\ program[ip - 1].name.lexeme \in DOMAIN last.before
        /\ program[ip].type = "Expression"
        /\ program[ip].expression.type = "Assign"
        /\ program[ip].expression.name = program[ip - 1].name
        /\ program[ip].expression.value.type = "Literal") =>
          /\ last.st = "ok"
          /\ last.val = ObjectFrom(program[ip].expression.value.value)
          /\ env[program[ip].expression.name.lexeme] = last.val

\* Const(a, 3) and then a = 5 were executed: a is 5.
C21_Witness ==
    /\ interpPc = "done"
    /\ Len(program) = 2
    /\ program[1].type = "Const"
    /\ program[1].name.lexeme = <<"a">>
    /\ program[2].type = "Expression"
    /\ program[2].expression.type = "Assign"
    /\ program[2].expression.name.lexeme = <<"a">>
    /\ result = <<NumberVal(3), NumberVal(5)>>
    /\ env = (<<"a">> :> NumberVal(5))

(***************************************************************************)
(* SpecOxa: at most MaxCalls calls of run_file on one Oxa.  Each call      *)
(* reads its file and runs the text, or fails to read it; the caller is    *)
(* main, which exits with the result, or a program that calls again.       *)
(***************************************************************************)
\* `let aa=1;`, `aa=2;`, `print aa;`, `print zz;`, `+;`, `==1;`, `1/0;`
\* and `//c`.
OxaSources ==
    { <<"l", "e", "t", " ", "a", "a", "=", "1", ";">>,
      <<"a", "a", "=", "2", ";">>,
      <<"p", "r", "i", "n", "t", " ", "a", "a", ";">>,
      <<"p", "r", "i", "n", "t", " ", "z", "z", ";">>,
      <<"+", ";">>,
      <<"=", "=", "1", ";">>,
      <<"1", "/", "0", ";">>,
      <<"/", "/", "c">> }

\* fs::read_to_string(file_path) returned Ok(result): self.run(&result)
\* builds a scanner on the text.
RunFile ==
    /\ phase = "file"
    /\ \E src \in OxaSources : source' = src
    /\ phase' = "scan"
    /\ start' = 0
    /\ current' = 0
    /\ line' = 0
    /\ tokens' = <<>>
    /\ scanDiags' = 0
    /\ scanPc' = "loop"
    /\ UNCHANGED <<parseVars, interpVars, exitCode, calls, cellVars>>

\* fs::read_to_string(file_path) returned Err(e): run_file returns
\* Err(ErrorCode::IO(e)) and main exits with its code.
RunFileError ==
    /\ phase = "file"
    /\ phase' = "exit"
    /\ exitCode' = exit_with_return_code([ok |-> FALSE, err |-> "IO"])
    /\ UNCHANGED <<scanVars, parseVars, interpVars, calls, cellVars>>

\* run returned to a caller that calls run_file on the same Oxa again.
RunAgain ==
    /\ \/ phase = "scan" /\ scanPc = "err"
       \/ phase = "interp" /\ interpPc = "done"
    /\ calls < MaxCalls
    /\ phase' = "file"
    /\ calls' = calls + 1
    /\ UNCHANGED <<scanVars, parseVars, interpVars, exitCode, cellVars>>

\* Oxa::builder().build() and the first call of run_file.
InitOxa ==
    /\ phase = "file"
    /\ ScanIdle
    /\ ParseIdle
    /\ InterpIdle
    /\ exitCode = -1
    /\ calls = 1
    /\ CellsIdle

NextOxa ==
    \/ RunFile \/ RunFileError
    \/ ScanNextToken \/ CommentLoop \/ ScanEof \/ RunParse
    \/ ParseDeclaration \/ ParseSynchronize \/ ParsePanic \/ ParseDone
    \/ RunInterpret
    \/ InterpretOk \/ InterpretErr \/ InterpretPanic \/ InterpretDone
    \/ RunReturn \/ RunAbort \/ RunAgain

SpecOxa == InitOxa /\ [][NextOxa]_vars

(***************************************************************************)
(* Claims about calls of run on one Oxa.                                   *)
(***************************************************************************)
\* C22: bindings persist across the calls made on one Oxa: a step that does
\* not execute a statement (the end of a call and the start of the next
\* one included) leaves the environment as it is; no step removes a name;
\* a name's value changes only when a Let, a Const or an assignment of that
\* name is executed; and in whatever call they run, `print n` of a defined
\* n writes its stored value and `n = literal` stores the literal.
C22_BindingsPersistAcrossCalls ==
    [][LET exec == phase = "interp" /\ interpPc = "loop" /\ ip < Len(program)
           stmt == program[ip + 1]
           binds(n) ==
               \/ stmt.type \in {"Let", "Const"} /\ stmt.name.lexeme = n
               \/ /\ stmt.type = "Expression"
                  /\ stmt.expression.type = "Assign"
                  /\ stmt.expression.name.lexeme = n
       IN  /\ ~ exec => env' = env
           /\ DOMAIN env \subseteq DOMAIN env'
           /\ \A n \in DOMAIN env : env'[n] # env[n] => (exec /\ binds(n))
           /\ (/\ exec
               /\ stmt.type = "Print"
               /\ stmt.expression.type = "Variable"
               /\ stmt.expression.name.lexeme \in DOMAIN env) =>
                  /\ last'.st = "ok"
                  /\ last'.val = env[stmt.expression.name.lexeme]
                  /\ output' = Append(output, Display(last'.val))
                  /\ env' = env
           /\ (/\ exec
               /\ stmt.type = "Expression"
               /\ stmt.expression.type = "Assign"
               /\ stmt.expression.value.type = "Literal"
               /\ stmt.expression.name.lexeme \in DOMAIN env) =>
                  /\ last'.st = "ok"
                  /\ env'[stmt.expression.name.lexeme] =
                        ObjectFrom(stmt.expression.value.value)
      ]_vars

\* The third call printed the 1 the first call bound to aa, after a second
\* call that reported a runtime error.
C22_Witness ==
    /\ calls = 3
    /\ rtErrors = 1
    /\ interpPc = "done"
    /\ source = <<"p", "r", "i", "n", "t", " ", "a", "a", ";">>
    /\ output = <<<<"1">>>>
    /\ env = (<<"a", "a">> :> NumberVal(1))


\* C26: when the source file cannot be read, run_file fails with the
\* FileError kind, exit code 10, and nothing is scanned, parsed or executed.
C26_UnreadableFileIsFileError ==
    [][(phase = "file" /\ phase' = "exit") =>
          /\ exitCode' = 10
          /\ UNCHANGED <<scanVars, parseVars, interpVars>>
      ]_vars


(***************************************************************************)
(* SpecCells: the Environment with its cells told apart.  values maps a    *)
(* name to the cell it holds, cells lists the Objects in the RefCells       *)
(* allocated so far, and handles is the set of Rc clones that define,      *)
(* assign and get have returned to their callers (cell 0 for None).        *)
(***************************************************************************)
CellNames == { <<"a">>, <<"b">> }

CellObjects == {NumberVal(1), NumberVal(2)}

\* What the method from returned for name: a clone of the Rc of cell.
Handle(from, name, cell) == [from |-> from, name |-> name, cell |-> cell]

\* Rc::new(RefCell::new(value)): the next cell.
NewCell == Len(cells) + 1

\* self.values.insert(name, value)
Inserted(name, cell) ==
    [n \in (DOMAIN values) \cup {name} |-> IF n = name THEN cell ELSE values[n]]

\* define(name, value): a new cell is inserted and its clone returned.
EnvDefine ==
    /\ phase = "cells"
    /\ Len(cells) < MaxCells
    /\ \E name \in CellNames, value \in CellObjects :
          /\ cells' = Append(cells, value)
          /\ values' = Inserted(name, NewCell)
          /\ handles' = handles \cup {Handle("define", name, NewCell)}
    /\ UNCHANGED <<phase, scanVars, parseVars, interpVars, exitCode, calls>>

\* assign(token, value) on a name that is present: a new cell is inserted
\* in place of the name's cell and its clone returned.
EnvAssign ==
    /\ phase = "cells"
    /\ Len(cells) < MaxCells
    /\ \E name \in DOMAIN values, value \in CellObjects :
          /\ cells' = Append(cells, value)
          /\ values' = Inserted(name, NewCell)
          /\ handles' = handles \cup {Handle("assign", name, NewCell)}
    /\ UNCHANGED <<phase, scanVars, parseVars, interpVars, exitCode, calls>>

\* assign(token, value) on a name that is absent: None, and the cell made
\* for the value is dropped.
EnvAssignNone ==
    /\ phase = "cells"
    /\ \E name \in CellNames \ DOMAIN values :
          handles' = handles \cup {Handle("assign", name, 0)}
    /\ UNCHANGED <<phase, scanVars, parseVars, interpVars, exitCode, calls,
                   values, cells>>

\* get(token) on a name that is present: a clone of the name's cell.
EnvGet ==
    /\ phase = "cells"
    /\ \E name \in DOMAIN values :
          handles' = handles \cup {Handle("get", name, values[name])}
    /\ UNCHANGED <<phase, scanVars, parseVars, interpVars, exitCode, calls,
                   values, cells>>

InitCells ==
    /\ phase = "cells"
    /\ ScanIdle
    /\ ParseIdle
    /\ InterpIdle
    /\ exitCode = -1
    /\ calls = 0
    /\ CellsIdle

NextCells == EnvDefine \/ EnvAssign \/ EnvAssignNone \/ EnvGet

SpecCells == InitCells /\ [][NextCells]_vars

\* C27: cells are shared across updates: after assign(name, v1) every cell
\* obtained for that name before, from define or get, holds v1 and is the
\* cell get(name) returns.
C27_CellsObserveAssign ==
    [][\A n \in DOMAIN values :
          Handle("assign", n, values'[n]) \in handles' \ handles =>
              \A h \in handles :
                  (h.name = n /\ h.cell # 0) =>
                      /\ cells'[h.cell] = cells'[values'[n]]
                      /\ h.cell = values'[n]
      ]_vars

=============================================================================
